---- MODULE Spec2Model ----
(***************************************************************************)
(* A model of the content-acquisition pipeline of email-spam-generator:    *)
(* WebScraper.scrape_domain with its collaborators (domain normalisation   *)
(* and validation, the SSRF guard check_domain_safety, the storage client, *)
(* the browser pool), as state machines translated from the Python source. *)
(*                                                                         *)
(* Strings are sequences of one-character strings.  The alphabet of the    *)
(* inputs has no "@" and no "[" (urlparse's userinfo and bracket cases).   *)
(***************************************************************************)
EXTENDS Integers, Sequences, FiniteSets, TLC

VARIABLES
    \* ---- WebScraper.scrape_domain, one call per worker at a time ----
    pc,        \* worker -> position in scrape_domain
    normalized, \* worker -> the call's normalized domain (its local "normalized")
    result,    \* worker -> the ScrapeResult being built / returned
    attempt,   \* worker -> index of the outer retry loop (0..max_retries)
    protocol,  \* worker -> index into Protocols inside _scrape_with_protocols
    failed_attempts, \* worker -> list of the pass's per-protocol errors
    tried,     \* worker -> protocols _scrape_url was called with in this pass
    page,      \* worker -> what page.goto produced for the page held, or NoPage
    eff,       \* worker -> the collaborator calls this scrape_domain call made
    stored,    \* worker -> arguments of this call's store_scrape_results calls
    safe,      \* worker -> what check_domain_safety returned to this call
    after,     \* worker -> the call started after an accepted store for its domain
    \* ---- shared ----
    db,        \* table domain_labels: domain -> its row (scraped_text, scrape_error)
    idle,      \* number of browsers on BrowserPool._browser_queue
    fetchers,  \* domain -> number of calls that acquired a browser for it
    accepted,  \* domains for which a non-skipped call returned, its store accepted
    \* ---- check_domain_safety called on its own ----
    cds_pc, cds_in, cds_ret,
    \* ---- BrowserPool on its own, get_page callers and close ----
    self_pool_size, \* BrowserPool.pool_size
    _initialized,   \* BrowserPool._initialized
    _playwright,    \* BrowserPool._playwright is set (the engine handle)
    _browsers,      \* BrowserPool._browsers, the list of launched browsers
    _browser_queue, \* BrowserPool._browser_queue, the idle browsers, oldest first
    gp_pc,          \* caller -> position in get_page
    gp_browser,     \* caller -> the browser it checked out, or NoBrowser
    launched,       \* number of browsers chromium.launch has returned so far
    closed,         \* the browsers browser.close() was called on
    closes_in_row,  \* close() calls since the last other operation, 2 for "2 or more"
    close_raised,   \* the last close() let an exception escape
    \* ---- qwen_labeler: label_domains_in_batches and its label_domain tasks ----
    lb_pc,          \* position in label_domains_in_batches
    domains, force, batch_size, max_concurrent, \* its arguments
    batch_i,        \* its loop variable i, the index where the batch starts
    tasks,          \* the batch's tasks, each a label_domain call
    all_results,    \* its list all_results
    outcomes,       \* what each label_domain call came to, in the order of domains
    domain_labels,  \* table domain_labels as the labeler reads and writes it
    session,        \* qwen_labeler.session: "none" or "open"
    \* ---- qwen_classifier/script.py ----
    stop_event,     \* stop_event is set
    \* ---- qwen_labeler.call_qwen, one call ----
    cq_pc,          \* "idle", "loop", "returned" or "raised"
    cq_retries,     \* its argument retries
    cq_attempt,     \* its loop variable attempt
    cq_log,         \* what each session.post of the call came to
    cq_ret,         \* the text it returned
    \* ---- CloudMetadataUpdater.get_cloud_metadata_ips, called from threads ----
    source_caches,  \* source -> the file cache/<source>_metadata.json
    combined_cache, \* the file cache/cloud_metadata_ips.json
    gm,             \* caller -> where its call is and its locals
    \* ---- one call of a function that keeps no state ----
    fn_pc,          \* "idle", "called" or "returned"
    fn_args,        \* its arguments
    fn_ret,         \* what it returned
    \* ---- robots_util: is_scraping_allowed of one domain, called from threads ----
    clock,              \* what time.time() returns, in whole seconds
    _robots_cache,      \* the domain's entry of _robots_cache, or NoEntry
    _fetching_domains,  \* the domain's entry of _fetching_domains, or NoMarker
    _cache_loaded, _cache_dirty, _cache_write_count,
    cache_file,         \* the domain's entry in resources/robots_cache.json
    ra_pc,              \* caller -> "idle", "fetching" (between the two lock blocks) or
                        \* "saving" (in the second one, between open() and json.dump's end)
    ra_now,             \* caller -> its local `now` while its fetch is in flight
    ra_ret,             \* caller -> what its last call returned, and how
    \* ---- rate_limiter: apply_rate_limit of one domain, called from threads ----
    rl_time,               \* what time.time() returns, in whole seconds
    _domain_last_request,  \* the domain's entry of _domain_last_request
    rl_pc,                 \* caller -> "idle", "sleep_delay" (line 15), "sleep_jitter" (line 17)
    rl_wake                \* caller -> the instant its time.sleep is over

scraperVars == <<pc, normalized, result, attempt, protocol, failed_attempts, tried, page, eff,
                 stored, safe, after, db, idle, fetchers, accepted>>
cdsVars == <<cds_pc, cds_in, cds_ret>>
poolVars == <<self_pool_size, _initialized, _playwright, _browsers, _browser_queue, gp_pc, gp_browser,
              launched, closed, closes_in_row, close_raised>>
labelVars == <<lb_pc, domains, force, batch_size, max_concurrent, batch_i, tasks,
               all_results, outcomes, domain_labels, session>>
robotsVars == <<clock, _robots_cache, _fetching_domains, _cache_loaded, _cache_dirty,
                _cache_write_count, cache_file, ra_pc, ra_now, ra_ret>>
rlVars == <<rl_time, _domain_last_request, rl_pc, rl_wake>>
cqVars == <<cq_pc, cq_retries, cq_attempt, cq_log, cq_ret>>
fnVars == <<fn_pc, fn_args, fn_ret>>
cloudVars == <<source_caches, combined_cache, gm>>
utilVars == <<robotsVars, rlVars, stop_event, cqVars, fnVars, cloudVars>>
vars == <<scraperVars, cdsVars, poolVars, labelVars, utilVars>>

\* what no step of the scraper touches
notScraper == <<cdsVars, poolVars, labelVars, utilVars>>
\* what no step of check_domain_safety touches
notSafety == <<scraperVars, poolVars, labelVars, utilVars>>
\* what no step of the pool touches
notPool == <<scraperVars, cdsVars, labelVars, utilVars>>
\* what no step of the labeler touches
notLabel == <<scraperVars, cdsVars, poolVars, utilVars>>
\* what no step of is_scraping_allowed touches
notRobots == <<scraperVars, cdsVars, poolVars, labelVars, rlVars, stop_event, cqVars, fnVars,
    cloudVars>>
\* what no step of apply_rate_limit touches
notRateLimit == <<scraperVars, cdsVars, poolVars, labelVars, robotsVars, stop_event, cqVars,
                 fnVars, cloudVars>>
\* what no step of script.py's signal handler touches
notScript == <<scraperVars, cdsVars, poolVars, labelVars, robotsVars, rlVars, cqVars, fnVars,
    cloudVars>>
\* what no step of call_qwen touches, the labeler's session apart
notCallQwen == <<scraperVars, cdsVars, poolVars, robotsVars, rlVars, stop_event, fnVars,
    cloudVars>>
\* what a call of a function that keeps no state leaves alone
notFn == <<scraperVars, cdsVars, poolVars, labelVars, robotsVars, rlVars, stop_event, cqVars,
          cloudVars>>
\* what no step of get_cloud_metadata_ips touches
notCloud == <<scraperVars, cdsVars, poolVars, labelVars, robotsVars, rlVars, stop_event, cqVars,
             fnVars>>

(***************************************************************************)
(* Bounds of the model.                                                    *)
(***************************************************************************)
NumWorkers == 2
pool_size == 1
MaxChain == 6
MaxAddrs == 2
MaxCount == 2
MaxLaunched == 4
MaxPoolSize == 2
MaxDomains == 3
MaxBatchSize == 2
MaxTime == 16
MaxRetries == 3
NumSources == 2
MaxParagraphs == 2

Workers == 1..NumWorkers

(***************************************************************************)
(* String helpers.                                                         *)
(***************************************************************************)
Repeat(c, n) == [i \in 1..n |-> c]

StartsWith(s, p) == Len(s) >= Len(p) /\ SubSeq(s, 1, Len(p)) = p

Drop(s, n) == SubSeq(s, n + 1, Len(s))

Whitespace == {" "}

\* str.strip()
Strip(s) ==
    LET keep == {i \in 1..Len(s) : s[i] \notin Whitespace}
    IN  IF keep = {} THEN <<>>
        ELSE LET lo == CHOOSE i \in keep : \A j \in keep : i <= j
                 hi == CHOOSE i \in keep : \A j \in keep : i >= j
             IN  SubSeq(s, lo, hi)

UpperLetters ==
    <<"A", "B", "C", "D", "E", "F", "G", "H", "I", "J", "K", "L", "M",
      "N", "O", "P", "Q", "R", "S", "T", "U", "V", "W", "X", "Y", "Z">>
LowerLetters ==
    <<"a", "b", "c", "d", "e", "f", "g", "h", "i", "j", "k", "l", "m",
      "n", "o", "p", "q", "r", "s", "t", "u", "v", "w", "x", "y", "z">>

LowerChar(c) ==
    IF \E i \in 1..Len(UpperLetters) : UpperLetters[i] = c
    THEN LowerLetters[CHOOSE i \in 1..Len(UpperLetters) : UpperLetters[i] = c]
    ELSE c

\* str.lower()
Lower(s) == [i \in 1..Len(s) |-> LowerChar(s[i])]

\* The prefix of s before the first character that is in stops.
TakeUntil(s, stops) ==
    LET hits == {i \in 1..Len(s) : s[i] \in stops}
    IN  IF hits = {} THEN s
        ELSE SubSeq(s, 1, (CHOOSE i \in hits : \A j \in hits : i <= j) - 1)

HttpPrefix == <<"h", "t", "t", "p", ":", "/", "/">>
HttpsPrefix == <<"h", "t", "t", "p", "s", ":", "/", "/">>
WwwPrefix == <<"w", "w", "w", ".">>

\* urlparse(url).netloc for an http(s) URL: what follows "//" up to "/", "?", "#".
UrlNetloc(url) ==
    LET rest == IF StartsWith(url, HttpsPrefix) THEN Drop(url, Len(HttpsPrefix))
                ELSE Drop(url, Len(HttpPrefix))
    IN  TakeUntil(rest, {"/", "?", "#"})

\* urlparse(url).hostname: the netloc without its port; None (here <<>>) when empty.
UrlHostname(url) == TakeUntil(UrlNetloc(url), {":"})

normalize_domain(domain) ==
    LET d1 == Lower(Strip(domain))
        d2 == IF StartsWith(d1, HttpPrefix) \/ StartsWith(d1, HttpsPrefix)
              THEN d1 ELSE HttpPrefix \o d1
        hostname == IF UrlHostname(d2) # <<>> THEN UrlHostname(d2) ELSE UrlNetloc(d2)
    IN  IF StartsWith(hostname, WwwPrefix) THEN Drop(hostname, 4) ELSE hostname

MaxDomainLen == 253
MaxLabelLen == 63

LabelChars ==
    {"a", "b", "c", "d", "e", "f", "g", "h", "i", "j", "k", "l", "m", "n", "o", "p",
     "q", "r", "s", "t", "u", "v", "w", "x", "y", "z",
     "A", "C", "H", "M", "O", "P", "S", "T", "W",
     "0", "1", "2", "3", "4", "5", "6", "7", "8", "9", "-"}

\* re.fullmatch of ^(?!-)[A-Za-z0-9-]{1,63}(?<!-)(\.(?!-)[A-Za-z0-9-]{1,63}(?<!-))*$ :
\* "." is outside the character class, so the match is the split of s at its dots
\* into labels, each of 1..63 label characters, none starting or ending with "-".
PatternMatches(s) ==
    LET n == Len(s)
        LabelStart(i) == i = 1 \/ s[i - 1] = "."
        LabelEnd(i) == i = n \/ s[i + 1] = "."
    IN  /\ n >= 1
        /\ s[1] # "." /\ s[n] # "."
        /\ \A i \in 1..n : s[i] = "." \/ s[i] \in LabelChars
        /\ \A i \in 1..(n - 1) : ~(s[i] = "." /\ s[i + 1] = ".")
        /\ \A i \in 1..n : LabelStart(i) => s[i] # "-"
        /\ \A i \in 1..n : LabelEnd(i) => s[i] # "-"
        /\ \A i \in 1..(n - MaxLabelLen) :
              \E j \in i..(i + MaxLabelLen) : s[j] = "."

is_valid_domain_nolen(domain) == PatternMatches(domain)

is_valid_domain(domain) ==
    IF Len(domain) > MaxDomainLen THEN FALSE ELSE PatternMatches(domain)

(***************************************************************************)
(* The SSRF guard.  An address is a record of what ipaddress.ip_address    *)
(* reports for its text: whether it parses, its family, its class flags,   *)
(* and whether the cloud-metadata set holds it; "zone" marks an IPv6 text  *)
(* with a %zone suffix as getaddrinfo returns it.                          *)
(***************************************************************************)
IP(name, fam, flags, cloud) ==
    [name |-> name, parses |-> TRUE, fam |-> fam, flags |-> flags, cloud |-> cloud,
     zone |-> FALSE]

V4Addrs ==
    { IP("93.184.216.34", 4, {}, FALSE),
      IP("169.254.169.254", 4, {"private", "link_local"}, TRUE),
      IP("100.100.100.200", 4, {}, TRUE),
      IP("10.0.0.1", 4, {"private"}, FALSE),
      IP("127.0.0.1", 4, {"private", "loopback"}, FALSE) }

V6Addrs ==
    { IP("2606:2800:220:1::1", 6, {}, FALSE),
      IP("::1", 6, {"private", "loopback"}, FALSE),
      IP("fec0::1", 6, {"site_local"}, FALSE),
      [IP("fe80::1", 6, {"private", "link_local"}, FALSE) EXCEPT !.zone = TRUE] }

V4Flags == {"private", "loopback", "link_local", "multicast", "reserved", "unspecified"}
V6Flags == V4Flags \cup {"site_local"}

\* get_dangerous_cloud_ips() succeeded and returned the set: ip.cloud says whether
\* ip_str (or str(ip)) is in it.
is_dangerous_ip(ip) ==
    IF ~ip.parses THEN TRUE                     \* ValueError -> True
    ELSE IF ip.cloud THEN TRUE
    ELSE IF ip.fam = 4 THEN ip.flags \cap V4Flags # {}
    ELSE IF ip.fam = 6 THEN ip.flags \cap V6Flags # {}
    ELSE FALSE

\* A value a Python function returns where a bool is expected: a bool, or a set.
PyBool(b) == [type |-> "bool", value |-> b, items |-> {}]
PySet(items) == [type |-> "set", value |-> FALSE, items |-> items]
\* bool(v), the test `if v:`
bool(v) == IF v.type = "bool" THEN v.value ELSE v.items # {}

\* is_dangerous_ip as security/ip_validator.py defines it a second time, lines 205-237:
\* the two class tests are written in braces, { a or b or ... }, a set of one bool
updater_is_dangerous_ip(ip) ==
    IF ~ip.parses THEN PyBool(TRUE)
    ELSE IF ip.cloud THEN PyBool(TRUE)
    ELSE IF ip.fam = 4 THEN PySet({ip.flags \cap V4Flags # {}})
    ELSE IF ip.fam = 6 THEN PySet({ip.flags \cap V6Flags # {}})
    ELSE PyBool(FALSE)

\* ip.split('%')[0]
StripZone(ip) == [ip EXCEPT !.zone = FALSE]

\* What socket.getaddrinfo did for one family: returned addresses ("ok"), raised
\* socket.gaierror ("gaierror"), or raised something else ("error").
Resolutions(addrs) ==
    { [status |-> st, addrs |-> <<>>] : st \in {"gaierror", "error"} }
    \cup { [status |-> "ok", addrs |-> a] :
             a \in UNION { [1..n -> addrs] : n \in 1..MaxAddrs } }

\* cloud_fails: get_dangerous_cloud_ips() raises inside is_dangerous_ip (its cache
\* file cannot be written), which only catches ValueError.
SafetyInputs ==
    [v4 : Resolutions(V4Addrs), v6 : Resolutions(V6Addrs), cloud_fails : BOOLEAN]

all_ips_of(in) ==
    (IF in.v4.status = "ok" THEN in.v4.addrs ELSE <<>>)
    \o (IF in.v6.status = "ok"
        THEN [i \in 1..Len(in.v6.addrs) |-> StripZone(in.v6.addrs[i])]
        ELSE <<>>)

check_domain_safety_open(in) ==
    IF in.v4.status = "error" \/ in.v6.status = "error" THEN FALSE
    ELSE LET all_ips == all_ips_of(in)
         IN  IF in.cloud_fails /\ all_ips # <<>> THEN FALSE
             ELSE \A i \in 1..Len(all_ips) : ~is_dangerous_ip(all_ips[i])

check_domain_safety(in) ==
    IF in.v4.status = "error" \/ in.v6.status = "error" THEN FALSE
    ELSE LET all_ips == all_ips_of(in)
         IN  IF all_ips = <<>> THEN FALSE
             ELSE IF in.cloud_fails THEN FALSE
             ELSE \A i \in 1..Len(all_ips) : ~is_dangerous_ip(all_ips[i])

(***************************************************************************)
(* ScrapeResult and the error strings.  A string of the program that is    *)
(* built from parts is the sequence of its parts; "" is <<>> and None is   *)
(* the one-element sequence None.                                          *)
(***************************************************************************)
None == <<"<None>">>
Truthy(v) == v # None /\ v # <<>>

\* Python's `a or b`
Or(a, b) == IF Truthy(a) THEN a ELSE b

ScrapeResult(domain, text, error, skipped) ==
    [domain |-> domain, text |-> text, error |-> error, skipped |-> skipped]

NoResult == ScrapeResult(<<>>, <<>>, None, FALSE)

InvalidFormat == <<"Invalid domain format">>
AlreadyScraped == <<"Already scraped">>
UnsafeTarget == <<"Blocked: Domain resolved to dangerous internal or metadata IP">>
RobotsDisallowed == <<"Blocked: Disallowed by robots.txt">>
BothFailed == <<"Both protocols failed - ">>

Protocols == <<"https", "http">>
Upper(p) == IF p = "https" THEN "HTTPS" ELSE "HTTP"

max_retries == 2
max_redirects_raised == 2 + 3
max_redirects == 2
max_html_size == 1000000
min_html_size == 300
min_text_size == 100

(***************************************************************************)
(* What one navigation gives _scrape_url: how page.goto ended, the number  *)
(* of 3xx responses handle_response collected, whether one of the redirect *)
(* targets resolves to a dangerous address, and the page read by           *)
(* page.content().                                                         *)
(*                                                                         *)
(* A page is its length len(html), the stretch of it that may hold a       *)
(* blocking keyword, and what extract_text(soup) makes of it.  A text is   *)
(* measured by its whitespace before the first non-blank character (lead), *)
(* the characters from the first to the last non-blank one (core), the     *)
(* whitespace among those (gaps) and the whitespace after them (trail).    *)
(***************************************************************************)
Extracted(kind, lead, core, gaps, trail) ==
    [kind |-> kind, lead |-> lead, core |-> core, gaps |-> gaps, trail |-> trail]

ExtractedText(lead, core, gaps, trail) == Extracted("text", lead, core, gaps, trail)
\* extract_text returned None
ExtractedNone == Extracted("none", 0, 0, 0, 0)
\* BeautifulSoup or extract_text raised
ExtractRaises == Extracted("raises", 0, 0, 0, 0)

\* len(text)
TextLen(t) == t.lead + t.core + t.trail
\* text.strip()
TextStrip(t) == Extracted(t.kind, 0, t.core, t.gaps, 0)
\* the characters of text that are not whitespace
NonBlank(t) == t.core - t.gaps

Html(len, body, extracted) ==
    [len |-> len, body |-> body, extracted |-> extracted]

\* `sub in s`
Contains(s, sub) ==
    \E i \in 0..(Len(s) - Len(sub)) : SubSeq(s, i + 1, i + Len(sub)) = sub

blocking_keywords ==
    << <<"c", "a", "p", "t", "c", "h", "a">>,
       <<"c", "l", "o", "u", "d", "f", "l", "a", "r", "e">>,
       <<"b", "o", "t", " ", "d", "e", "t", "e", "c", "t", "i", "o", "n">>,
       <<"a", "c", "c", "e", "s", "s", " ", "d", "e", "n", "i", "e", "d">>,
       <<"b", "l", "o", "c", "k", "e", "d">> >>

\* the scan without html.lower()
blocking_keyword_in_exact_case(body) ==
    \E k \in 1..Len(blocking_keywords) : Contains(body, blocking_keywords[k])

\* html_lower = html.lower(); some keyword of blocking_keywords is in html_lower
blocking_keyword_in(body) ==
    \E k \in 1..Len(blocking_keywords) : Contains(Lower(body), blocking_keywords[k])

\* `not extracted_text or len(extracted_text.strip()) < 100`
insufficient_text(t) ==
    \/ t.kind = "none"
    \/ TextLen(t) = 0
    \/ TextLen(TextStrip(t)) < min_text_size

PlainBody == <<"<", "p", ">", "S", "h", "o", "p", "<", "/", "p", ">">>
CaptchaBody == <<"<", "p", ">", "C", "a", "p", "t", "c", "h", "a", "<", "/", "p", ">">>

GoodPage == Html(5000, PlainBody, ExtractedText(0, 400, 60, 0))
CaptchaPage == Html(5000, CaptchaBody, ExtractedText(0, 400, 60, 0))
NoHtml == Html(0, <<>>, ExtractedNone)

Nav(outcome, redirects, unsafe_hop, html) ==
    [outcome |-> outcome, redirects |-> redirects, unsafe_hop |-> unsafe_hop,
     html |-> html]

NoPage == Nav("none", 0, FALSE, NoHtml)

Navigations ==
    { Nav("ok", r, u, h) : r \in 0..MaxChain, u \in BOOLEAN, h \in {GoodPage, CaptchaPage} }
    \cup { Nav(o, r, u, NoHtml) : o \in {"timeout", "error"}, r \in 0..MaxChain,
                                  u \in BOOLEAN }

\* A redirect target exists only on a chain with a redirect.
NavInputs == { n \in Navigations : n.unsafe_hop => n.redirects >= 1 }

UrlError(p, what) == <<Upper(p), what>>

\* the body of _scrape_url after page.goto returned
scrape_page(domain, p, nav) ==
    IF nav.redirects > max_redirects
    THEN ScrapeResult(domain, <<>>, UrlError(p, " exceeded redirect limit"), FALSE)
    ELSE IF nav.html.len > max_html_size
    THEN ScrapeResult(domain, <<>>, UrlError(p, " HTML too large"), FALSE)
    ELSE IF nav.html.len < min_html_size
    THEN ScrapeResult(domain, <<>>, UrlError(p, " content too small"), FALSE)
    ELSE IF blocking_keyword_in(nav.html.body)
    THEN ScrapeResult(domain, <<>>, UrlError(p, " suspicious or protected content"), FALSE)
    ELSE IF nav.html.extracted.kind = "raises"
    THEN ScrapeResult(domain, <<>>, UrlError(p, " text extraction failed"), FALSE)
    ELSE IF insufficient_text(nav.html.extracted)
    THEN ScrapeResult(domain, <<>>, UrlError(p, " insufficient text content extracted"), FALSE)
    ELSE ScrapeResult(domain, <<"extracted_text">>, None, FALSE)

_scrape_url(domain, p, nav) ==
    IF nav.outcome = "timeout"
    THEN ScrapeResult(domain, <<>>, UrlError(p, " timeout"), FALSE)
    ELSE IF nav.outcome = "error"
    THEN ScrapeResult(domain, <<>>, UrlError(p, " error"), FALSE)
    ELSE scrape_page(domain, p, nav)

\* page.content() is called: the navigation returned and passed the redirect check
content_read(nav) == nav.outcome = "ok" /\ nav.redirects <= max_redirects

(***************************************************************************)
(* The domain strings scrape_domain is called with.                        *)
(***************************************************************************)
Dot == <<".">>
ACo == <<"a", ".", "c", "o">>
Label63 == Repeat("a", MaxLabelLen)

RawInputs ==
    { ACo,
      <<" ", "H", "T", "T", "P", "S", ":", "/", "/", "W", "W", "W", ".">> \o ACo
          \o <<":", "8", "0", "/", "p", " ">>,
      ACo \o <<"/">> \o Repeat("p", MaxDomainLen),
      <<>>,
      <<" ", " ">>,
      <<"-">> \o ACo,
      <<"a", "-", ".", "c", "o">>,
      <<"a", "_", "b", ".", "c", "o">>,
      Label63 \o <<"a">> \o Dot \o <<"c", "o">>,
      Label63 \o Dot \o Label63 \o Dot \o Label63 \o Dot \o Label63,
      <<"w", "w", "w", ".">> \o Label63 \o Dot \o Label63 \o Dot \o Label63 \o Dot
          \o Label63 }

\* normalize_domain and is_valid_domain of every input, computed once
Normalized == [r \in RawInputs |-> normalize_domain(r)]
Valid == [r \in RawInputs |-> is_valid_domain(Normalized[r])]

\* every domain a call can be about
Domains == { Normalized[r] : r \in RawInputs }

(***************************************************************************)
(* SupabaseClient: table domain_labels, one row per domain.  A query that  *)
(* _safe_execute could not run (ok = FALSE) yields None / False.           *)
(***************************************************************************)
NoRow == [scraped_text |-> None, scrape_error |-> None]

\* select ... .eq("domain", d): the row of d, all columns null when there is none
Row(d) == IF d \in DOMAIN db THEN db[d] ELSE NoRow

\* upsert(data): the row of d is created or updated
Upsert(d, row) == [k \in DOMAIN db \cup {d} |-> IF k = d THEN row ELSE db[k]]

Fetchers(d) == IF d \in DOMAIN fetchers THEN fetchers[d] ELSE 0

_get_domain_field(row, ok) == IF ok THEN row.scraped_text ELSE None

is_domain_scraped(row, ok) == _get_domain_field(row, ok) # None

upsert_scrape(row, text, error) ==
    [scraped_text |-> text,
     scrape_error |-> IF Truthy(error) THEN error ELSE row.scrape_error]

\* the arguments _store_result passes to store_scrape_results
store_args(r) == [domain |-> r.domain, text |-> Or(r.text, r.error), error |-> r.error]

(***************************************************************************)
(* The branches of scrape_domain and _scrape_with_protocols.               *)
(***************************************************************************)
valid_branch(valid) == IF ~valid THEN "returned" ELSE "is_scraped"

scraped_branch_stores(scraped) == IF scraped THEN "store" ELSE "rate_limit"

scraped_branch(scraped) == IF scraped THEN "returned" ELSE "rate_limit"

safety_branch_falls_through(is_safe) == "robots"

safety_branch(is_safe) == IF ~is_safe THEN "store" ELSE "robots"

robots_branch_ignores_answer(allowed) == "get_page"

robots_branch_no_store(allowed) == IF ~allowed THEN "returned" ELSE "get_page"

robots_branch(allowed) == IF ~allowed THEN "store" ELSE "get_page"

failed_entry(p, error) == <<Upper(p), ": ">> \o error

both_failed(failed) == BothFailed \o failed[1] \o <<"; ">> \o failed[2]

\* One turn of the loop `for protocol in ["https", "http"]` after _scrape_url
\* returned r for Protocols[i]: the pass returns (done) or goes to the next protocol.
protocols_step_aborts(domain, i, failed, r) ==
    [done |-> TRUE, result |-> r, protocol |-> i, failed |-> failed]

protocols_step(domain, i, failed, r) ==
    IF r.error = None
    THEN [done |-> TRUE, result |-> r, protocol |-> i, failed |-> failed]
    ELSE LET f == Append(failed, failed_entry(Protocols[i], r.error))
         IN  IF i < Len(Protocols)
             THEN [done |-> FALSE, result |-> r, protocol |-> i + 1, failed |-> f]
             ELSE [done |-> TRUE,
                   result |-> ScrapeResult(domain, <<>>, both_failed(f), FALSE),
                   protocol |-> i, failed |-> f]

\* scrape_domain's loop `for attempt in range(max_retries + 1)` after a pass
\* returned r: store and return, or sleep and go round again.
retry_branch_one_more(r, a) ==
    IF r.error = None THEN "store"
    ELSE IF a = max_retries + 1 THEN "store"
    ELSE "get_page"

retry_branch(r, a) ==
    IF r.error = None THEN "store"
    ELSE IF a = max_retries THEN "store"
    ELSE "get_page"

(***************************************************************************)
(* WebScraper.scrape_domain, a step per collaborator call.                 *)
(***************************************************************************)
NoEff == [is_scraped |-> 0, rate_limit |-> 0, safety |-> 0, robots |-> 0,
          get_page |-> 0, store |-> 0,
          sleeps |-> <<>>]

Bump(w, field) == eff' = [eff EXCEPT ![w][field] = @ + 1]

Saturate(n) == IF n < MaxCount THEN n + 1 ELSE MaxCount

InitScraper ==
    /\ pc = [w \in Workers |-> "idle"]
    /\ normalized = [w \in Workers |-> <<>>]
    /\ result = [w \in Workers |-> NoResult]
    /\ attempt = [w \in Workers |-> 0]
    /\ protocol = [w \in Workers |-> 1]
    /\ failed_attempts = [w \in Workers |-> <<>>]
    /\ tried = [w \in Workers |-> <<>>]
    /\ page = [w \in Workers |-> NoPage]
    /\ eff = [w \in Workers |-> NoEff]
    /\ stored = [w \in Workers |-> <<>>]
    /\ safe = [w \in Workers |-> "unchecked"]
    /\ after = [w \in Workers |-> FALSE]
    /\ db = <<>>
    /\ idle = pool_size
    /\ fetchers = <<>>
    /\ accepted = {}

\* scrape_domain(domain) is called: lines 186-189
Call(w, raws) ==
    /\ pc[w] \in {"idle", "returned"}
    /\ \E raw \in raws :
         LET n == Normalized[raw]
             valid == Valid[raw]
         IN  /\ normalized' = [normalized EXCEPT ![w] = n]
             /\ pc' = [pc EXCEPT ![w] = valid_branch(valid)]
             /\ result' = [result EXCEPT ![w] =
                    IF valid_branch(valid) = "returned"
                    THEN ScrapeResult(n, <<>>, InvalidFormat, FALSE) ELSE NoResult]
             /\ after' = [after EXCEPT ![w] = n \in accepted]
    /\ attempt' = [attempt EXCEPT ![w] = 0]
    /\ protocol' = [protocol EXCEPT ![w] = 1]
    /\ failed_attempts' = [failed_attempts EXCEPT ![w] = <<>>]
    /\ tried' = [tried EXCEPT ![w] = <<>>]
    /\ eff' = [eff EXCEPT ![w] = NoEff]
    /\ stored' = [stored EXCEPT ![w] = <<>>]
    /\ safe' = [safe EXCEPT ![w] = "unchecked"]
    /\ UNCHANGED <<page, db, idle, fetchers, accepted>>
    /\ UNCHANGED notScraper

\* lines 191-192: storage.is_domain_scraped(normalized)
IsDomainScraped(w, oks) ==
    /\ pc[w] = "is_scraped"
    /\ \E ok \in oks :
         LET scraped == is_domain_scraped(Row(normalized[w]), ok)
         IN  /\ pc' = [pc EXCEPT ![w] = scraped_branch(scraped)]
             /\ result' = [result EXCEPT ![w] =
                    IF scraped
                    THEN ScrapeResult(normalized[w], <<>>, AlreadyScraped, TRUE)
                    ELSE NoResult]
    /\ Bump(w, "is_scraped")
    /\ UNCHANGED <<normalized, attempt, protocol, failed_attempts, tried, page, stored,
                   safe, after, db, idle, fetchers, accepted>>
    /\ UNCHANGED notScraper

\* line 194: rate_limiter.apply_rate_limit(normalized)
ApplyRateLimit(w) ==
    /\ pc[w] = "rate_limit"
    /\ pc' = [pc EXCEPT ![w] = "safety"]
    /\ Bump(w, "rate_limit")
    /\ UNCHANGED <<normalized, result, attempt, protocol, failed_attempts, tried, page,
                   stored, safe, after, db, idle, fetchers, accepted>>
    /\ UNCHANGED notScraper

\* lines 196-199: validator.check_domain_safety(normalized)
CheckDomainSafety(w, ins) ==
    /\ pc[w] = "safety"
    /\ \E in \in ins :
         LET is_safe == check_domain_safety(in)
         IN  /\ safe' = [safe EXCEPT ![w] = IF is_safe THEN "safe" ELSE "unsafe"]
             /\ pc' = [pc EXCEPT ![w] = safety_branch(is_safe)]
             /\ result' = [result EXCEPT ![w] =
                    IF is_safe THEN NoResult
                    ELSE ScrapeResult(normalized[w], <<>>, UnsafeTarget, FALSE)]
    /\ Bump(w, "safety")
    /\ UNCHANGED <<normalized, attempt, protocol, failed_attempts, tried, page, stored,
                   after, db, idle, fetchers, accepted>>
    /\ UNCHANGED notScraper

\* lines 201-204: validator.is_scraping_allowed(normalized)
IsScrapingAllowed(w) ==
    /\ pc[w] = "robots"
    /\ \E allowed \in BOOLEAN :
         /\ pc' = [pc EXCEPT ![w] = robots_branch(allowed)]
         /\ result' = [result EXCEPT ![w] =
                IF allowed THEN result[w]
                ELSE ScrapeResult(normalized[w], <<>>, RobotsDisallowed, FALSE)]
    /\ Bump(w, "robots")
    /\ UNCHANGED <<normalized, attempt, protocol, failed_attempts, tried, page, stored,
                   safe, after, db, idle, fetchers, accepted>>
    /\ UNCHANGED notScraper

\* _scrape_url, line 254: browser_pool.get_page() hands out an idle browser
GetPage(w) ==
    /\ pc[w] = "get_page"
    /\ idle > 0
    /\ idle' = idle - 1
    /\ pc' = [pc EXCEPT ![w] = "goto"]
    /\ tried' = [tried EXCEPT ![w] = Append(@, Protocols[protocol[w]])]
    /\ fetchers' = IF eff[w].get_page > 0 THEN fetchers
                   ELSE [d \in DOMAIN fetchers \cup {normalized[w]} |->
                           IF d = normalized[w] THEN Saturate(Fetchers(d))
                           ELSE fetchers[d]]
    /\ Bump(w, "get_page")
    /\ UNCHANGED <<normalized, result, attempt, protocol, failed_attempts, page, stored,
                   safe, after, db, accepted>>
    /\ UNCHANGED notScraper

\* _scrape_url, lines 85-87 and 314-330: no browser came free within 30 s; the
\* RuntimeError is caught and becomes this protocol's error result
GetPageTimeout(w) ==
    /\ pc[w] = "get_page"
    /\ idle = 0
    /\ pc' = [pc EXCEPT ![w] = "protocols"]
    /\ tried' = [tried EXCEPT ![w] = Append(@, Protocols[protocol[w]])]
    /\ result' = [result EXCEPT ![w] =
           _scrape_url(normalized[w], Protocols[protocol[w]], Nav("error", 0, FALSE, NoHtml))]
    /\ UNCHANGED <<normalized, attempt, protocol, failed_attempts, page, eff, stored,
                   safe, after, db, idle, fetchers, accepted>>
    /\ UNCHANGED notScraper

\* _scrape_url, line 263: page.goto(url) follows the redirects and returns or raises
Goto(w, navs) ==
    /\ pc[w] = "goto"
    /\ \E nav \in navs : page' = [page EXCEPT ![w] = nav]
    /\ pc' = [pc EXCEPT ![w] = "content"]
    /\ UNCHANGED <<normalized, result, attempt, protocol, failed_attempts, tried, eff,
                   stored, safe, after, db, idle, fetchers, accepted>>
    /\ UNCHANGED notScraper

\* _scrape_url, lines 265-330 and 100-104: the result of the navigation; the page and
\* context are closed and the browser goes back on the queue
ScrapeUrl(w) ==
    /\ pc[w] = "content"
    /\ result' = [result EXCEPT ![w] =
           _scrape_url(normalized[w], Protocols[protocol[w]], page[w])]
    /\ page' = [page EXCEPT ![w] = NoPage]
    /\ idle' = idle + 1
    /\ pc' = [pc EXCEPT ![w] = "protocols"]
    /\ UNCHANGED <<normalized, attempt, protocol, failed_attempts, tried, eff, stored,
                   safe, after, db, fetchers, accepted>>
    /\ UNCHANGED notScraper

\* _scrape_with_protocols, lines 238-247
ScrapeWithProtocols(w) ==
    /\ pc[w] = "protocols"
    /\ LET st == protocols_step(normalized[w], protocol[w], failed_attempts[w], result[w])
       IN  /\ result' = [result EXCEPT ![w] = st.result]
           /\ protocol' = [protocol EXCEPT ![w] = st.protocol]
           /\ failed_attempts' = [failed_attempts EXCEPT ![w] = st.failed]
           /\ pc' = [pc EXCEPT ![w] = IF st.done THEN "attempt_done" ELSE "get_page"]
    /\ UNCHANGED <<normalized, attempt, tried, page, eff, stored, safe, after, db, idle,
                   fetchers, accepted>>
    /\ UNCHANGED notScraper

\* scrape_domain, lines 208-217: the pass returned
Retry(w) ==
    /\ pc[w] = "attempt_done"
    /\ LET to == retry_branch(result[w], attempt[w])
       IN  /\ pc' = [pc EXCEPT ![w] = to]
           /\ IF to = "get_page"
              THEN \* line 217: time.sleep(2 ** attempt), then the next pass
                   /\ eff' = [eff EXCEPT ![w].sleeps = Append(@, 2 ^ attempt[w])]
                   /\ attempt' = [attempt EXCEPT ![w] = @ + 1]
                   /\ protocol' = [protocol EXCEPT ![w] = 1]
                   /\ failed_attempts' = [failed_attempts EXCEPT ![w] = <<>>]
                   /\ tried' = [tried EXCEPT ![w] = <<>>]
              ELSE UNCHANGED <<attempt, protocol, failed_attempts, tried, eff>>
    /\ UNCHANGED <<normalized, result, page, stored, safe, after, db, idle,
                   fetchers, accepted>>
    /\ UNCHANGED notScraper

\* _store_result, lines 335-345, and the return that follows it
StoreResult(w, oks) ==
    /\ pc[w] = "store"
    /\ LET a == store_args(result[w])
       IN  /\ stored' = [stored EXCEPT ![w] = Append(@, a)]
           /\ \E ok \in oks :
                /\ db' = IF ok
                         THEN Upsert(a.domain, upsert_scrape(Row(a.domain), a.text, a.error))
                         ELSE db
                /\ accepted' = IF ok /\ ~result[w].skipped
                               THEN accepted \cup {a.domain}
                               ELSE accepted
    /\ Bump(w, "store")
    /\ pc' = [pc EXCEPT ![w] = "returned"]
    /\ UNCHANGED <<normalized, result, attempt, protocol, failed_attempts, tried, page,
                   safe, after, idle, fetchers>>
    /\ UNCHANGED notScraper

\* The resolution outcomes the scraper's runs draw from.
DnsCases ==
    LET pub4 == IP("93.184.216.34", 4, {}, FALSE)
        meta4 == IP("169.254.169.254", 4, {"private", "link_local"}, TRUE)
        pub6 == IP("2606:2800:220:1::1", 6, {}, FALSE)
        Ok(a) == [status |-> "ok", addrs |-> a]
        Gai == [status |-> "gaierror", addrs |-> <<>>]
    IN  { [v4 |-> Ok(<<pub4>>), v6 |-> Ok(<<pub6>>), cloud_fails |-> FALSE],
          [v4 |-> Ok(<<pub4>>), v6 |-> Gai, cloud_fails |-> FALSE],
          [v4 |-> Ok(<<pub4, meta4>>), v6 |-> Gai, cloud_fails |-> FALSE],
          [v4 |-> Gai, v6 |-> Gai, cloud_fails |-> FALSE],
          [v4 |-> Ok(<<pub4>>), v6 |-> Gai, cloud_fails |-> TRUE] }

\* A sequence of scrape_domain calls by one caller (scrape_batch), on every input,
\* with a storage whose queries may fail.
Next ==
    \E w \in {1} :
        \/ Call(w, RawInputs)
        \/ IsDomainScraped(w, BOOLEAN)
        \/ ApplyRateLimit(w)
        \/ CheckDomainSafety(w, DnsCases)
        \/ IsScrapingAllowed(w)
        \/ GetPage(w)
        \/ Goto(w, NavInputs)
        \/ ScrapeUrl(w)
        \/ ScrapeWithProtocols(w)
        \/ Retry(w)
        \/ StoreResult(w, BOOLEAN)

\* Concurrent scrape_domain calls sharing the pool and the storage.
ConcurrentNavs ==
    { Nav("ok", 0, FALSE, GoodPage), Nav("timeout", 0, FALSE, NoHtml) }

NextConcurrent ==
    \E w \in Workers :
        \/ Call(w, {ACo})
        \/ IsDomainScraped(w, {TRUE})
        \/ ApplyRateLimit(w)
        \/ CheckDomainSafety(w, DnsCases)
        \/ IsScrapingAllowed(w)
        \/ GetPage(w)
        \/ GetPageTimeout(w)
        \/ Goto(w, ConcurrentNavs)
        \/ ScrapeUrl(w)
        \/ ScrapeWithProtocols(w)
        \/ Retry(w)
        \/ StoreResult(w, {TRUE})

(***************************************************************************)
(* The classification orchestrator (qwen_labeler): label_domain and        *)
(* label_domains_in_batches over the table domain_labels.  A scraped text  *)
(* is kept by what useless_text and label_domain read of it: its stripped  *)
(* length, its number of tokens, the noisy signals it contains and whether *)
(* it contains "Both protocols failed".  A backend response is kept by the *)
(* JSON value json.loads makes of it.                                      *)
(***************************************************************************)
Null == "<null>"

noisy_signals ==
    { "error 404", "not found", "403 forbidden", "cloudflare", "captcha",
      "this site can't be reached", "access denied", "nginx", "server error",
      "that's all we know", "please enable javascript", "502 bad gateway" }

min_chars == 30
min_tokens == 10
min_signals == 2

Text(chars, tokens, signals, marker) ==
    [null |-> FALSE, chars |-> chars, tokens |-> tokens, signals |-> signals,
     both_failed |-> marker]

NullText == [null |-> TRUE, chars |-> 0, tokens |-> 0, signals |-> {}, both_failed |-> FALSE]

EmptyText == Text(0, 0, {}, FALSE)

\* a page's text, long enough and free of noise
GoodText == Text(400, 60, {}, FALSE)

\* what WebScraper._store_result stores as scraped_text of a failed scrape
RobotsText == Text(33, 4, {}, FALSE)
UnsafeText == Text(61, 9, {}, FALSE)
BothFailedText == Text(90, 14, {}, TRUE)

LabelTexts ==
    { NullText, EmptyText, GoodText, RobotsText, UnsafeText, BothFailedText,
      Text(20, 3, {}, FALSE),
      Text(40, 4, {}, FALSE),
      Text(400, 60, {"nginx"}, FALSE),
      Text(400, 60, {"not found", "nginx"}, FALSE),
      Text(400, 60, noisy_signals, FALSE) }

\* text_filters.useless_text
useless_text(text) ==
    IF text.null \/ text.chars = 0 \/ text.chars < min_chars THEN TRUE
    ELSE Cardinality(text.signals) >= min_signals \/ text.tokens < min_tokens

\* a row of domain_labels
LabelRow(exists, text, scrape_error, category) ==
    [exists |-> exists, scraped_text |-> text, scrape_error |-> scrape_error,
     category |-> category, confidence |-> 0, explanation |-> Null,
     classifier_error |-> Null]

NoLabelRow == LabelRow(FALSE, NullText, Null, Null)

\* the rows the repository's writers leave: none, a preloaded domain
\* (preload_domains), a scraped one, a failed scrape, a failed scrape followed by a
\* successful one (store_scrape_results does not clear scrape_error), each of
\* the scraped ones classified or not
LabelRows ==
    { NoLabelRow, LabelRow(TRUE, NullText, Null, Null) }
    \cup { LabelRow(TRUE, t, Null, c) : t \in LabelTexts \ {NullText}, c \in {Null, "tech"} }
    \cup { LabelRow(TRUE, t, "scrape failed", c) :
             t \in {RobotsText, UnsafeText, BothFailedText, GoodText}, c \in {Null, "tech"} }

\* SupabaseClient.get_domain_data: the row, or None when there is none or the
\* query failed
get_domain_data(row, ok) == IF ok /\ row.exists THEN [found |-> TRUE, row |-> row]
                            ELSE [found |-> FALSE, row |-> NoLabelRow]

\* SupabaseClient.is_domain_classified
is_domain_classified(row, ok) == (IF ok /\ row.exists THEN row.category ELSE Null) # Null

\* dict.get(key) with default None
Get(dict, key) == IF key \in DOMAIN dict THEN dict[key] ELSE Null

\* get_scraped_data: None, or the dict with keys domain, scraped_text and error
get_scraped_data(domain, row, ok) ==
    LET domain_data == get_domain_data(row, ok)
    IN  IF domain_data.found
        THEN [found |-> TRUE,
              dict |-> [domain |-> domain,
                        scraped_text |-> domain_data.row.scraped_text,
                        error |-> domain_data.row.scrape_error]]
        ELSE [found |-> FALSE, dict |-> [domain |-> domain]]

\* label_domain, lines 251-260: the path taken, or the TypeError of
\* `"Both protocols failed" in None`
choose_path(data) ==
    LET scrape_error == Get(data.dict, "scrape_error")
        scraped_text == Get(data.dict, "scraped_text")
    IN  IF scrape_error # Null THEN "fallback"
        ELSE IF scraped_text.null THEN "TypeError"
        ELSE IF scraped_text.both_failed \/ useless_text(scraped_text) THEN "fallback"
        ELSE "content"

(***************************************************************************)
(* Backend responses.                                                      *)
(***************************************************************************)
RequiredKeys == {"category", "subcategory", "confidence", "explanation"}

\* a confidence value as the backend writes it: an "int" or a "numeric_string" with
\* the integer int(float(v)) comes to, a "word", a "null", or "infinity" (the JSON
\* literal Infinity, a number such as 1e999 or a string such as "inf")
Conf(type, value) == [type |-> type, value |-> value]

\* json.loads(response): kind "invalid" when it raises JSONDecodeError; keys are the
\* names k for which `k in value` is true when the value supports `in`
Json(kind, keys, category, confidence, explanation) ==
    [kind |-> kind, keys |-> keys, category |-> category, confidence |-> confidence,
     explanation |-> explanation]

\* call_qwen raised after its retries
TransportError == Json("transport_error", {}, Null, Conf("null", 0), Null)

GoodResponse == Json("object", RequiredKeys, "tech", Conf("int", 9), "llm")

Responses ==
    { TransportError, GoodResponse,
      Json("invalid", {}, Null, Conf("null", 0), Null),
      Json("array", {}, Null, Conf("null", 0), Null),
      Json("array", RequiredKeys, Null, Conf("null", 0), Null),
      Json("string", {}, Null, Conf("null", 0), Null),
      Json("string", RequiredKeys, Null, Conf("null", 0), Null),
      Json("number", {}, Null, Conf("null", 0), Null),
      Json("null", {}, Null, Conf("null", 0), Null),
      Json("bool", {}, Null, Conf("null", 0), Null),
      Json("object", {}, Null, Conf("null", 0), Null),
      Json("object", RequiredKeys, "tech", Conf("numeric_string", 9), "llm"),
      Json("object", RequiredKeys, "tech", Conf("word", 0), "llm"),
      Json("object", RequiredKeys, "tech", Conf("null", 0), "llm"),
      Json("object", RequiredKeys, "tech", Conf("int", 0), "llm"),
      Json("object", RequiredKeys, "tech", Conf("int", 10), "llm"),
      Json("object", RequiredKeys, "tech", Conf("int", 95), "llm"),
      Json("object", RequiredKeys, "tech", Conf("int", -3), "llm"),
      Json("object", RequiredKeys, "tech", Conf("numeric_string", 11), "llm"),
      Json("object", RequiredKeys, "tech", Conf("infinity", 0), "llm") }
    \cup { Json("object", RequiredKeys \ {k}, "tech", Conf("int", 9), "llm") :
             k \in RequiredKeys }

\* the dict ask_qwen and classify_domain_fallback return in place of a response
DefaultClassification(explanation) ==
    Json("object", RequiredKeys, "unknown", Conf("int", 0), explanation)

\* ask_qwen, lines 105-119; call_qwen's exception and the TypeError of `key in result`
\* on a number, null or boolean are not caught
ask_qwen(response) ==
    IF response.kind = "transport_error"
    THEN [raised |-> TRUE, value |-> response]
    ELSE IF response.kind = "invalid"
    THEN [raised |-> FALSE, value |-> DefaultClassification("Failed to parse JSON")]
    ELSE IF response.kind \in {"number", "null", "bool"}
    THEN [raised |-> TRUE, value |-> response]
    ELSE IF ~(RequiredKeys \subseteq response.keys)
    THEN [raised |-> FALSE, value |-> DefaultClassification("Failed to parse JSON")]
    ELSE [raised |-> FALSE, value |-> response]

\* classify_domain_fallback, lines 189-199
classify_domain_fallback(response) ==
    IF response.kind \in {"transport_error", "invalid"}
    THEN [raised |-> FALSE, value |-> DefaultClassification("Fallback failed: ")]
    ELSE [raised |-> FALSE, value |-> response]

\* int(float(v)) under `except (ValueError, TypeError)`, lines 262-265
confidence_of(v) == IF v.type \in {"int", "numeric_string"} THEN v.value ELSE 0

\* int(float(v)) raises OverflowError, which lines 264-265 do not catch
confidence_overflows(v) == v.type = "infinity"

ClassificationResult(domain, category, confidence, explanation, source, classifier_error) ==
    [domain |-> domain, category |-> category, confidence |-> confidence,
     explanation |-> explanation, source |-> source,
     classifier_error |-> classifier_error]

NoClassification == ClassificationResult(<<>>, Null, 0, "", "", Null)

AlreadyLabeled == "Already labeled"
DomainNotFound == "Domain not found or not scraped"
StoreFailed == "Failed to store classification in database"

\* what a label_domain call came to: its result or the exception it let escape, and
\* the backend calls and storage writes it made
Outcome(raised, exc, r, calls, writes) ==
    [raised |-> raised, exc |-> exc, result |-> r, calls |-> calls, writes |-> writes]

NoOutcome == Outcome(FALSE, Null, NoClassification, 0, 0)

\* SupabaseClient.store_classification_results: the row after the upsert of the
\* columns passed (scraped_text is always passed, classifier_error never)
store_classification_results(row, r, scraped_text) ==
    [row EXCEPT !.exists = TRUE, !.category = r.category, !.confidence = r.confidence,
                !.explanation = r.explanation, !.scraped_text = scraped_text]

\* label_domain, lines 262-297: from the classification dict to the result
to_result(domain, classification, source, store_ok) ==
    IF classification.kind # "object"
    THEN Outcome(TRUE, "AttributeError", NoClassification, 1, 0)
    ELSE IF "confidence" \in classification.keys
            /\ confidence_overflows(classification.confidence)
    THEN Outcome(TRUE, "OverflowError", NoClassification, 1, 0)
    ELSE Outcome(FALSE, Null,
             ClassificationResult(domain,
                 IF "category" \in classification.keys THEN classification.category
                 ELSE "unknown",
                 IF "confidence" \in classification.keys
                 THEN confidence_of(classification.confidence) ELSE 0,
                 IF "explanation" \in classification.keys THEN classification.explanation
                 ELSE "",
                 source,
                 IF store_ok THEN Null ELSE StoreFailed),
             1, 1)

\* label_domain, lines 255-297, from the backend's response on
finish(domain, path, response, store_ok) ==
    LET c == IF path = "fallback" THEN classify_domain_fallback(response)
             ELSE ask_qwen(response)
        source == IF path = "fallback" THEN "qwen-fallback" ELSE "qwen"
    IN  IF c.raised
        THEN Outcome(TRUE, IF response.kind = "transport_error" THEN "Exception"
                           ELSE "TypeError", NoClassification, 1, 0)
        ELSE to_result(domain, c.value, source, store_ok)

\* label_domain, lines 219-260, up to the backend call: the call ends here (skipped,
\* not found, TypeError) or awaits the backend on the path chosen
start(raw, force_, row, ok_classified, ok_data, ok_store) ==
    LET domain == normalize_domain(raw)
        data == get_scraped_data(domain, row, ok_data)
        not_found == ClassificationResult(domain, "error", 0, "", "", DomainNotFound)
    IN  IF ~force_ /\ is_domain_classified(row, ok_classified)
        THEN [pc |-> "done", path |-> "none", row |-> row,
              out |-> Outcome(FALSE, Null,
                         ClassificationResult(domain, "error", 0, "", "", AlreadyLabeled),
                         0, 0)]
        ELSE IF ~data.found
        THEN [pc |-> "done", path |-> "none",
              row |-> IF ok_store
                      THEN store_classification_results(row, not_found, EmptyText)
                      ELSE row,
              out |-> Outcome(FALSE, Null, not_found, 0, 1)]
        ELSE IF choose_path(data) = "TypeError"
        THEN [pc |-> "done", path |-> "none", row |-> row,
              out |-> Outcome(TRUE, "TypeError", NoClassification, 0, 0)]
        ELSE [pc |-> "awaiting", path |-> choose_path(data), row |-> row,
              out |-> NoOutcome]

\* label_domains_in_batches, lines 319-324: the batch's results, in the batch's order
collect_drops_exceptions(batch, outs) ==
    LET ok == SelectSeq([j \in 1..Len(batch) |-> j], LAMBDA j : ~outs[j].raised)
    IN  [k \in 1..Len(ok) |-> outs[ok[k]].result]

collect(batch, outs) ==
    [j \in 1..Len(batch) |->
        IF outs[j].raised
        THEN ClassificationResult(batch[j], "error", 0, "", "", outs[j].exc)
        ELSE outs[j].result]

\* the domain strings the labeler is called with, and their rows' keys
UrlACo == <<" ", "H", "T", "T", "P", "S", ":", "/", "/", "W", "W", "W", ".">> \o ACo
              \o <<":", "8", "0", "/", "p", " ">>
HyphenACo == <<"-">> \o ACo
LabelInputs == {ACo, UrlACo, HyphenACo}
LabelDomains == { Normalized[r] : r \in LabelInputs }

\* label_domains_in_batches is not running
NoLabelCall ==
    /\ lb_pc = "idle"
    /\ domains = <<>>
    /\ force = FALSE
    /\ batch_size = 1
    /\ max_concurrent = 1
    /\ batch_i = 0
    /\ tasks = <<>>
    /\ all_results = <<>>
    /\ outcomes = <<>>
    /\ domain_labels = [d \in LabelDomains |-> NoLabelRow]
    /\ session = "none"

(***************************************************************************)
(* robots_util.is_scraping_allowed for one domain.  Time is read in whole  *)
(* seconds at the instants below.  The fetch (RobotFileParser.read and     *)
(* can_fetch) is kept by its outcome: rules that allow or disallow, an     *)
(* exception (URLError, timeout, UnicodeDecodeError), or an HTTP error     *)
(* status, which RobotFileParser.read swallows.                            *)
(***************************************************************************)
CACHE_TTL_SECONDS == 86400
CACHE_WRITE_THRESHOLD == 5
FETCH_STUCK_TIMEOUT == 30

Instants == {0, 29, 30, 86400, 86401, 86431}

Entry(allowed, fetched_at) ==
    [present |-> TRUE, allowed |-> allowed, fetched_at |-> fetched_at]

NoEntry == [present |-> FALSE, allowed |-> TRUE, fetched_at |-> 0]

NoMarker == -1

\* line 61: `cached and now - cached.get("fetched_at", 0) <= CACHE_TTL_SECONDS`
cache_hit_strict(cached, now) ==
    cached.present /\ now - cached.fetched_at < CACHE_TTL_SECONDS

cache_hit(cached, now) ==
    cached.present /\ now - cached.fetched_at <= CACHE_TTL_SECONDS

\* lines 64-71 without the marker test
must_fetch_always(fetch_started, now) == TRUE

\* lines 64-71: no fetch is marked in flight, or the marker is stuck
must_fetch(fetch_started, now) ==
    fetch_started = NoMarker \/ ~(now - fetch_started < FETCH_STUCK_TIMEOUT)

FetchOutcomes ==
    {"allow", "disallow", "exception", "http_401_403", "http_4xx", "http_5xx"}

\* lines 73-80.  RobotFileParser.read catches HTTPError: 401 and 403 set
\* disallow_all, other 4xx set allow_all, 5xx sets neither and parses nothing, so
\* can_fetch returns False ("not self.last_checked").
fetch_allowed(outcome) ==
    CASE outcome = "allow" -> TRUE
      [] outcome = "disallow" -> FALSE
      [] outcome = "exception" -> TRUE
      [] outcome = "http_401_403" -> FALSE
      [] outcome = "http_4xx" -> TRUE
      [] outcome = "http_5xx" -> FALSE

\* _cleanup_expired_entries
_cleanup_expired_entries(cache, now) ==
    IF cache.present /\ now - cache.fetched_at > CACHE_TTL_SECONDS THEN NoEntry ELSE cache

\* lines 39-42 without the threshold
write_due_always(dirty, count, force_) == dirty

\* lines 39-42: _save_robots_cache goes on to write the file
write_due(dirty, count, force_) == dirty /\ (force_ \/ count >= CACHE_WRITE_THRESHOLD)

\* `with _cache_lock:` entered with the lock taken
_cache_lock_ignored(pcs) == TRUE

\* `with _cache_lock:` can be entered: no caller is inside a block that holds the
\* lock across steps (the save of lines 43-48)
_cache_lock_free(pcs) == \A c \in DOMAIN pcs : pcs[c] # "saving"

\* _save_robots_cache(): the cache, the file and the two counters after it
_save_robots_cache(cache, file, dirty, count, now) ==
    IF ~write_due(dirty, count, FALSE)
    THEN [cache |-> cache, file |-> file, dirty |-> dirty, count |-> count]
    ELSE [cache |-> _cleanup_expired_entries(cache, now),
          file |-> _cleanup_expired_entries(cache, now), dirty |-> FALSE, count |-> 0]

\* what a call returned: from the cache, because a fetch is in flight, or its fetch
Ret(how, value, outcome) == [how |-> how, value |-> value, outcome |-> outcome]

NoRet == Ret("none", TRUE, "none")

\* no thread is inside is_scraping_allowed, nothing is loaded
NoRobotsCall ==
    /\ clock = 0
    /\ _robots_cache = NoEntry
    /\ _fetching_domains = NoMarker
    /\ _cache_loaded = FALSE
    /\ _cache_dirty = FALSE
    /\ _cache_write_count = 0
    /\ cache_file = NoEntry
    /\ ra_pc = [c \in Workers |-> "idle"]
    /\ ra_now = [c \in Workers |-> 0]
    /\ ra_ret = [c \in Workers |-> NoRet]

(***************************************************************************)
(* rate_limiter.apply_rate_limit for one domain.  Time is in whole seconds *)
(* and the jitter random.uniform(1.5, 3.5) is 2 or 3.  The first call finds*)
(* the defaultdict's 0.0, long before now.                                 *)
(***************************************************************************)
MIN_DOMAIN_DELAY == 5

JITTER_RANGE == {2, 3}

\* lines 12-15: the seconds to sleep before the jitter, 0 for none
delay(elapsed) == IF elapsed < MIN_DOMAIN_DELAY THEN MIN_DOMAIN_DELAY - elapsed ELSE 0

\* no thread is inside apply_rate_limit, no request was made
NoRateLimitCall ==
    /\ rl_time = MIN_DOMAIN_DELAY
    /\ _domain_last_request = 0
    /\ rl_pc = [c \in Workers |-> "idle"]
    /\ rl_wake = [c \in Workers |-> 0]

\* no signal was received
NoSignal == stop_event = FALSE

(***************************************************************************)
(* call_qwen: one session.post per turn of its loop.  A post comes to a    *)
(* status 200 whose JSON body holds "response" (a classification, possibly *)
(* of category "unknown"), a status 200 whose body is no JSON or has no    *)
(* "response", another status, or an exception of the transport.           *)
(***************************************************************************)
PostOutcomes == {"ok", "ok_unknown", "bad_body", "status", "exception"}

\* lines 79-81: the post returns data["response"]
post_returns_known_only(outcome) == outcome = "ok"

post_returns(outcome) == outcome \in {"ok", "ok_unknown"}

\* lines 69-91, one turn of `for attempt in range(retries + 1)`
call_qwen_attempt(retries, attempt_, outcome) ==
    IF post_returns(outcome) THEN [pc |-> "returned", attempt |-> attempt_]
    ELSE IF attempt_ = retries THEN [pc |-> "raised", attempt |-> attempt_]
    ELSE [pc |-> "loop", attempt |-> attempt_ + 1]

\* the text of the response the post of turn attempt_ received
ResponseText(outcome, attempt_) == [body |-> outcome, attempt |-> attempt_]

\* call_qwen is not running
NoQwenCall ==
    /\ cq_pc = "idle"
    /\ cq_retries = 0
    /\ cq_attempt = 0
    /\ cq_log = <<>>
    /\ cq_ret = Null

(***************************************************************************)
(* CloudMetadataUpdater: the set of cloud-metadata addresses, gathered from *)
(* the fallback list, the per-source cache files and the remote sources.   *)
(* A file is missing, holds a JSON document with a list of addresses, or   *)
(* holds no JSON document: "partial" after open(path, 'w') truncated it    *)
(* and before json.dump finished, "garbled" after two writers wrote into   *)
(* it at once.  fresh says whether its mtime is within cache_ttl.          *)
(***************************************************************************)
fallback_cloud_metadata_ips ==
    {"169.254.169.254", "169.254.170.2", "100.100.100.200", "169.254.169.249",
     "169.254.169.250", "169.254.0.1"}

\* the first NumSources entries of cloud_metadata_sources
Sources == 1..NumSources

\* a link-local address that is not on the fallback list
OtherMetadataIp == "169.254.1.1"

LinkLocalIps == {ip \in fallback_cloud_metadata_ips : ip # "100.100.100.200"}
                    \cup {OtherMetadataIp}

File(kind, ips, fresh) == [kind |-> kind, ips |-> ips, fresh |-> fresh]
Missing == File("missing", {}, FALSE)
Partial == File("partial", {}, TRUE)
Garbled == File("garbled", {}, TRUE)
JsonFile(ips, fresh) == File("json", ips, fresh)

\* Optional[set[str]]
Some(ips) == [some |-> TRUE, ips |-> ips]
NoIps == [some |-> FALSE, ips |-> {}]
\* `if ips:`
NonEmpty(o) == o.some /\ o.ips # {}

_is_cache_valid(file) == file.kind # "missing" /\ file.fresh

_load_from_cache(file) ==
    IF ~_is_cache_valid(file) THEN NoIps
    ELSE IF file.kind # "json" THEN NoIps       \* json.load raises, caught
    ELSE Some(file.ips)

\* re.findall(ip_pattern, text), the text given as the dotted quads it mentions: in
\* r'\b(?:[0-9]{1-3}\.){3}[0-9]{1-3}\b' the braces {1-3} are no repetition count but
\* the characters "{1-3}", so no dotted quad matches
potential_ips(text) == {ip \in text : FALSE}

_extract_ips_from_text(text) ==
    {ip \in potential_ips(text) : ip \in LinkLocalIps \/ ip = "100.100.100.200"}

\* all_ips = cached_ips in place of all_ips.update(cached_ips)
update_replaces(all_ips, more) == more

\* all_ips.update(more)
update(all_ips, more) == all_ips \cup more

\* a caller's position and locals: force_refresh, the index of the source its loop
\* is at, all_ips, and the ips it is writing to a per-source cache
Gm(pc_, force_refresh, i, all_ips, ips) ==
    [pc |-> pc_, force_refresh |-> force_refresh, i |-> i, all_ips |-> all_ips, ips |-> ips]

NoGm == Gm("idle", FALSE, 1, {}, {})

Updaters == {"t1", "t2"}

\* no thread is inside get_cloud_metadata_ips, no cache file exists
NoCloudCall ==
    /\ source_caches = [s \in Sources |-> Missing]
    /\ combined_cache = Missing
    /\ gm = [c \in Updaters |-> NoGm]

\* no function is being called on its own
NoFnCall ==
    /\ fn_pc = "idle"
    /\ fn_args = <<>>
    /\ fn_ret = <<>>

NoUtilCall ==
    NoRobotsCall /\ NoRateLimitCall /\ NoSignal /\ NoQwenCall /\ NoFnCall /\ NoCloudCall

\* check_domain_safety is not being called on its own
NoSafetyInput ==
    [v4 |-> [status |-> "gaierror", addrs |-> <<>>],
     v6 |-> [status |-> "gaierror", addrs |-> <<>>], cloud_fails |-> FALSE]

NoSafetyCall ==
    /\ cds_pc = "idle"
    /\ cds_in = NoSafetyInput
    /\ cds_ret = FALSE

(***************************************************************************)
(* BrowserPool: initialize, get_page and close, a step per call that can   *)
(* raise.  Browsers are numbered in the order chromium.launch returns them.*)
(***************************************************************************)
NoBrowser == 0

Range(q) == { q[i] : i \in DOMAIN q }

Pool == [initialized |-> _initialized, playwright |-> _playwright,
         browsers |-> _browsers, queue |-> _browser_queue]

\* what the collaborators of close() do: some browser.close() raises, stop() raises
CloseRaisings == [browser : BOOLEAN, stop : BOOLEAN]

\* close(), lines 116-138, with every exception of a browser or of the engine
\* caught and logged: the pool after it, the browsers close() was called on, and
\* whether an exception escaped
close_unguarded(P, raising) ==
    IF raising.browser /\ P.browsers # <<>>
    THEN [pool |-> [P EXCEPT !.queue = <<>>], closed |-> {}, raised |-> TRUE]
    ELSE IF raising.stop /\ P.playwright
    THEN [pool |-> [P EXCEPT !.queue = <<>>], closed |-> Range(P.browsers), raised |-> TRUE]
    ELSE [pool |-> [initialized |-> FALSE, playwright |-> FALSE,
                    browsers |-> <<>>, queue |-> <<>>],
          closed |-> Range(P.browsers), raised |-> FALSE]

close(P, raising) ==
    [pool |-> [initialized |-> FALSE, playwright |-> FALSE,
               browsers |-> <<>>, queue |-> <<>>],
     closed |-> Range(P.browsers), raised |-> FALSE]

\* the outcomes of one run of initialize()'s body: sync_playwright().start() raises
\* (-1), the launch after k browsers raises (k < self_pool_size), all launches succeed
InitOutcomes == -1 .. self_pool_size

Fresh(n, k) == [i \in 1..k |-> n + i]

\* initialize(), line 50, under _init_lock: is there anything to do
needs_init_always(initialized) == TRUE

needs_init(initialized) == ~initialized

\* initialize(), lines 53-77, on an uninitialized pool when n browsers were launched
\* before: the pool after it, the number launched, the browsers closed, raised or not
initialize(P, n, k, raising) ==
    IF k = -1
    THEN [pool |-> P, launched |-> 0, closed |-> {}, raised |-> TRUE]
    ELSE LET k_ok == IF k < self_pool_size THEN k ELSE self_pool_size
             P1 == [P EXCEPT !.playwright = TRUE,
                             !.browsers = P.browsers \o Fresh(n, k_ok),
                             !.queue = P.queue \o Fresh(n, k_ok)]
         IN  IF k < self_pool_size
             THEN [pool |-> close(P1, raising).pool, launched |-> k_ok,
                   closed |-> close(P1, raising).closed, raised |-> TRUE]
             ELSE [pool |-> [P1 EXCEPT !.initialized = TRUE], launched |-> k_ok,
                   closed |-> {}, raised |-> FALSE]

\* Queue.get, line 85: the oldest idle browser leaves the queue
queue_get(q) == [item |-> Head(q), rest |-> Tail(q)]

\* lines 102-104: `context.close()` then `self._browser_queue.put(browser)`
release(q, b, context_closed) == IF context_closed THEN Append(q, b) ELSE q

\* who holds a browser
Holding(c) == gp_pc[c] \in {"has_browser", "in_body"}

\* BrowserPool.__init__, lines 40-46, and no caller yet
InitPool ==
    /\ self_pool_size = pool_size
    /\ _initialized = FALSE
    /\ _playwright = FALSE
    /\ _browsers = <<>>
    /\ _browser_queue = <<>>
    /\ gp_pc = [c \in Workers |-> "out"]
    /\ gp_browser = [c \in Workers |-> NoBrowser]
    /\ launched = 0
    /\ closed = {}
    /\ closes_in_row = 0
    /\ close_raised = FALSE

\* BrowserPool(pool_size) constructed with each size, and no caller yet
InitPoolSized ==
    /\ InitScraper
    /\ NoUtilCall
    /\ NoSafetyCall
    /\ NoLabelCall
    /\ self_pool_size \in 1..MaxPoolSize
    /\ _initialized = FALSE
    /\ _playwright = FALSE
    /\ _browsers = <<>>
    /\ _browser_queue = <<>>
    /\ gp_pc = [c \in Workers |-> "out"]
    /\ gp_browser = [c \in Workers |-> NoBrowser]
    /\ launched = 0
    /\ closed = {}
    /\ closes_in_row = 0
    /\ close_raised = FALSE

SetPool(P) ==
    /\ _initialized' = P.initialized
    /\ _playwright' = P.playwright
    /\ _browsers' = P.browsers
    /\ _browser_queue' = P.queue

\* get_page, line 81: `if not self._initialized`, read without the lock
GetPageEnter(c) ==
    /\ gp_pc[c] = "out"
    /\ gp_pc' = [gp_pc EXCEPT ![c] = IF ~_initialized THEN "initialize" ELSE "acquire"]
    /\ closes_in_row' = 0
    /\ UNCHANGED <<self_pool_size, _initialized, _playwright, _browsers, _browser_queue, gp_browser,
                   launched, closed, close_raised>>
    /\ UNCHANGED notPool

\* get_page, line 82: initialize(), the whole of it under _init_lock
Initialize(c) ==
    /\ gp_pc[c] = "initialize"
    /\ IF needs_init(_initialized)
       THEN /\ launched + self_pool_size <= MaxLaunched
            /\ \E k \in InitOutcomes, raising \in CloseRaisings :
                 LET r == initialize(Pool, launched, k, raising)
                 IN  /\ SetPool(r.pool)
                     /\ launched' = launched + r.launched
                     /\ closed' = closed \cup r.closed
                     /\ gp_pc' = [gp_pc EXCEPT ![c] = IF r.raised THEN "out" ELSE "acquire"]
                     /\ closes_in_row' = IF r.raised /\ k >= 0 THEN 1 ELSE 0
       ELSE /\ gp_pc' = [gp_pc EXCEPT ![c] = "acquire"]
            /\ closes_in_row' = 0
            /\ UNCHANGED <<self_pool_size, _initialized, _playwright, _browsers, _browser_queue,
                           launched, closed>>
    /\ UNCHANGED <<self_pool_size, gp_browser, close_raised>>
    /\ UNCHANGED notPool

\* get_page, line 85: `self._browser_queue.get(timeout=30)` returns a browser
Checkout(c) ==
    /\ gp_pc[c] = "acquire"
    /\ _browser_queue # <<>>
    /\ gp_browser' = [gp_browser EXCEPT ![c] = queue_get(_browser_queue).item]
    /\ _browser_queue' = queue_get(_browser_queue).rest
    /\ gp_pc' = [gp_pc EXCEPT ![c] = "has_browser"]
    /\ closes_in_row' = 0
    /\ UNCHANGED <<self_pool_size, _initialized, _playwright, _browsers, launched, closed,
                   close_raised>>
    /\ UNCHANGED notPool

\* get_page, lines 85-87: the queue stayed empty for 30 s, queue.Empty becomes
\* RuntimeError("No browser available - all browsers are busy")
CheckoutTimeout(c) ==
    /\ gp_pc[c] = "acquire"
    /\ _browser_queue = <<>>
    /\ gp_pc' = [gp_pc EXCEPT ![c] = "out"]
    /\ closes_in_row' = 0
    /\ UNCHANGED <<self_pool_size, _initialized, _playwright, _browsers, _browser_queue, gp_browser,
                   launched, closed, close_raised>>
    /\ UNCHANGED notPool

\* get_page, lines 89-97 and 102-104: browser.new_context(...), outside every try
\* block, then context.new_page(); when new_page raises the outer finally closes the
\* context and puts the browser back
NewContext(c) ==
    /\ gp_pc[c] = "has_browser"
    /\ \E context_ok \in BOOLEAN, page_ok \in BOOLEAN, context_closed \in BOOLEAN :
         IF context_ok /\ page_ok
         THEN /\ gp_pc' = [gp_pc EXCEPT ![c] = "in_body"]
              /\ UNCHANGED <<_browser_queue, gp_browser>>
         ELSE /\ gp_pc' = [gp_pc EXCEPT ![c] = "out"]
              /\ _browser_queue' = IF context_ok
                                   THEN release(_browser_queue, gp_browser[c], context_closed)
                                   ELSE _browser_queue
              /\ gp_browser' = [gp_browser EXCEPT ![c] = NoBrowser]
    /\ closes_in_row' = 0
    /\ UNCHANGED <<self_pool_size, _initialized, _playwright, _browsers, launched, closed,
                   close_raised>>
    /\ UNCHANGED notPool

\* get_page, lines 98-104: the caller's body ends (normally or raising), then
\* page.close(), context.close() and the put, each of the closes may raise
ExitBody(c) ==
    /\ gp_pc[c] = "in_body"
    /\ \E body_ok \in BOOLEAN, page_closed \in BOOLEAN, context_closed \in BOOLEAN :
         _browser_queue' = release(_browser_queue, gp_browser[c], context_closed)
    /\ gp_pc' = [gp_pc EXCEPT ![c] = "out"]
    /\ gp_browser' = [gp_browser EXCEPT ![c] = NoBrowser]
    /\ closes_in_row' = 0
    /\ UNCHANGED <<self_pool_size, _initialized, _playwright, _browsers, launched, closed,
                   close_raised>>
    /\ UNCHANGED notPool

\* BrowserPool.close(), lines 116-138, called from outside (WebScraper.close)
Close ==
    /\ \E raising \in CloseRaisings :
         LET r == close(Pool, raising)
         IN  /\ SetPool(r.pool)
             /\ closed' = closed \cup r.closed
             /\ close_raised' = r.raised
    /\ closes_in_row' = IF closes_in_row = 0 THEN 1 ELSE 2
    /\ UNCHANGED <<self_pool_size, gp_pc, gp_browser, launched>>
    /\ UNCHANGED notPool

\* Concurrent get_page callers on one pool.
NextPool ==
    \E c \in Workers :
        \/ GetPageEnter(c)
        \/ Initialize(c)
        \/ Checkout(c)
        \/ CheckoutTimeout(c)
        \/ NewContext(c)
        \/ ExitBody(c)

\* The same callers and an owner that closes the pool.
NextPoolClose ==
    \/ \E c \in Workers :
        \/ GetPageEnter(c)
        \/ Initialize(c)
        \/ Checkout(c)
        \/ CheckoutTimeout(c)
        \/ NewContext(c)
        \/ ExitBody(c)
    \/ Close

(***************************************************************************)
(* check_domain_safety called on its own, on every resolution outcome.     *)
(***************************************************************************)
\* check_domain_safety(domain) is called while the resolver answers cds_in
InitSafety ==
    /\ InitScraper
    /\ NoUtilCall
    /\ InitPool
    /\ NoLabelCall
    /\ cds_pc = "called"
    /\ cds_in \in SafetyInputs
    /\ cds_ret = FALSE

SafetyReturn ==
    /\ cds_pc = "called"
    /\ cds_ret' = check_domain_safety(cds_in)
    /\ cds_pc' = "returned"
    /\ UNCHANGED cds_in
    /\ UNCHANGED notSafety

NextSafety == SafetyReturn

(***************************************************************************)
(* label_domains_in_batches: the tasks of a batch run label_domain, at most *)
(* max_concurrent of them between their backend call and its response.     *)
(***************************************************************************)
Task(pc_, raw, row, path, response, out) ==
    [pc |-> pc_, raw |-> raw, row0 |-> row, path |-> path, response |-> response,
     out |-> out]

Min(a, b) == IF a < b THEN a ELSE b

\* domains[i:i + batch_size]
Batch == SubSeq(domains, batch_i + 1, Min(batch_i + batch_size, Len(domains)))

Awaiting == { j \in DOMAIN tasks : tasks[j].pc = "awaiting" }

\* `async with semaphore`, lines 311-314: a task enters when fewer than
\* max_concurrent tasks are inside
semaphore_unbounded(inside, value) == TRUE

semaphore_acquire(inside, value) == inside < value

\* label_domains_in_batches(domains, batch_size, max_concurrent, force) is running
\* on a table where a.co is scraped and -a.co is preloaded, not scraped
InitBatch ==
    /\ InitScraper
    /\ NoUtilCall
    /\ NoSafetyCall
    /\ InitPool
    /\ session = "open"
    /\ lb_pc = "loop"
    /\ domains \in UNION { [1..n -> LabelInputs] : n \in 0..MaxDomains }
    /\ force \in BOOLEAN
    /\ batch_size \in 1..MaxBatchSize
    /\ max_concurrent \in 1..MaxBatchSize
    /\ batch_i = 0
    /\ tasks = <<>>
    /\ all_results = <<>>
    /\ outcomes = <<>>
    /\ domain_labels = [d \in LabelDomains |->
           IF d = ACo THEN LabelRow(TRUE, GoodText, Null, Null)
           ELSE LabelRow(TRUE, NullText, Null, Null)]

\* label_domain(domain, force) is running as the one task of a batch, on each row
InitLabel ==
    /\ InitScraper
    /\ NoUtilCall
    /\ NoSafetyCall
    /\ InitPool
    /\ session = "open"
    /\ lb_pc = "loop"
    /\ domains \in { <<r>> : r \in LabelInputs }
    /\ force \in BOOLEAN
    /\ batch_size = 1
    /\ max_concurrent = 1
    /\ batch_i = 0
    /\ tasks = <<>>
    /\ all_results = <<>>
    /\ outcomes = <<>>
    /\ domain_labels \in { [d \in LabelDomains |->
                             IF d = Normalized[domains[1]] THEN row ELSE NoLabelRow] :
                           row \in LabelRows }

\* lines 304-317: the tasks of the next batch are created
StartBatch ==
    /\ lb_pc = "loop"
    /\ batch_i < Len(domains)
    /\ tasks' = [j \in 1..Len(Batch) |->
                    Task("pending", Batch[j], NoLabelRow, "none", TransportError, NoOutcome)]
    /\ lb_pc' = "gather"
    /\ UNCHANGED <<domains, force, batch_size, max_concurrent, batch_i, all_results,
                   outcomes, domain_labels>>
    /\ UNCHANGED session
    /\ UNCHANGED notLabel

\* process_domain, lines 313-315, and label_domain up to its backend call
LabelStart(j, oks) ==
    /\ lb_pc = "gather"
    /\ j \in DOMAIN tasks
    /\ tasks[j].pc = "pending"
    /\ semaphore_acquire(Cardinality(Awaiting), max_concurrent)
    /\ \E ok_classified \in oks, ok_data \in oks, ok_store \in oks :
         LET d == Normalized[tasks[j].raw]
             st == start(tasks[j].raw, force, domain_labels[d], ok_classified, ok_data,
                         ok_store)
         IN  /\ tasks' = [tasks EXCEPT ![j] =
                    Task(st.pc, tasks[j].raw, domain_labels[d], st.path, TransportError,
                         st.out)]
             /\ domain_labels' = [domain_labels EXCEPT ![d] = st.row]
    /\ UNCHANGED <<lb_pc, domains, force, batch_size, max_concurrent, batch_i,
                   all_results, outcomes>>
    /\ UNCHANGED session
    /\ UNCHANGED notLabel

\* label_domain from the backend's response to its return, lines 255-297
LabelFinish(j, responses, oks) ==
    /\ lb_pc = "gather"
    /\ j \in DOMAIN tasks
    /\ tasks[j].pc = "awaiting"
    /\ \E response \in responses, store_ok \in oks :
         LET d == Normalized[tasks[j].raw]
             out == finish(d, tasks[j].path, response, store_ok)
         IN  /\ tasks' = [tasks EXCEPT ![j] =
                    Task("done", tasks[j].raw, tasks[j].row0, tasks[j].path, response, out)]
             /\ domain_labels' =
                    IF ~out.raised /\ store_ok
                    THEN [domain_labels EXCEPT ![d] =
                             store_classification_results(@, out.result,
                                                          tasks[j].row0.scraped_text)]
                    ELSE domain_labels
    /\ UNCHANGED <<lb_pc, domains, force, batch_size, max_concurrent, batch_i,
                   all_results, outcomes>>
    /\ UNCHANGED session
    /\ UNCHANGED notLabel

\* lines 317-330: gather returned, the batch's results are appended
Collect ==
    /\ lb_pc = "gather"
    /\ \A j \in DOMAIN tasks : tasks[j].pc = "done"
    /\ all_results' = all_results \o collect(Batch, [j \in DOMAIN tasks |-> tasks[j].out])
    /\ outcomes' = outcomes \o [j \in DOMAIN tasks |-> tasks[j].out]
    /\ batch_i' = batch_i + batch_size
    /\ lb_pc' = "loop"
    /\ UNCHANGED <<domains, force, batch_size, max_concurrent, tasks, domain_labels>>
    /\ UNCHANGED session
    /\ UNCHANGED notLabel

\* lines 332-334: close_session() and `return all_results`
ReturnAll ==
    /\ lb_pc = "loop"
    /\ batch_i >= Len(domains)
    /\ lb_pc' = "returned"
    /\ session' = "none"
    /\ UNCHANGED <<domains, force, batch_size, max_concurrent, batch_i, tasks,
                   all_results, outcomes, domain_labels>>
    /\ UNCHANGED notLabel

\* Batches of domains on a storage that works, a backend that answers or fails.
NextBatch ==
    \/ StartBatch
    \/ \E j \in 1..MaxBatchSize :
        \/ LabelStart(j, {TRUE})
        \/ LabelFinish(j, {TransportError, GoodResponse}, {TRUE})
    \/ Collect
    \/ ReturnAll

\* One label_domain call on every row, every response, a storage that may fail.
NextLabel ==
    \/ StartBatch
    \/ \E j \in {1} :
        \/ LabelStart(j, BOOLEAN)
        \/ LabelFinish(j, Responses, BOOLEAN)
    \/ Collect
    \/ ReturnAll

(***************************************************************************)
(* is_scraping_allowed: the first lock block, the fetch outside the lock,  *)
(* the second lock block.                                                  *)
(***************************************************************************)
InitRobots ==
    /\ InitScraper
    /\ NoSafetyCall
    /\ InitPool
    /\ NoLabelCall
    /\ NoRateLimitCall
    /\ NoSignal
    /\ NoQwenCall
    /\ NoFnCall
    /\ NoCloudCall
    /\ clock = 0
    /\ cache_file \in {NoEntry, Entry(FALSE, 0)}
    \* lookups of other domains have loaded the cache and written entries, or none has
    /\ _cache_write_count \in {0, CACHE_WRITE_THRESHOLD - 1}
    /\ _cache_dirty = (_cache_write_count > 0)
    /\ _cache_loaded = (_cache_write_count > 0)
    /\ _robots_cache = IF _cache_loaded THEN cache_file ELSE NoEntry
    /\ _fetching_domains = NoMarker
    /\ ra_pc = [c \in Workers |-> "idle"]
    /\ ra_now = [c \in Workers |-> 0]
    /\ ra_ret = [c \in Workers |-> NoRet]

\* time passes
Tick ==
    /\ \E t \in Instants : t > clock /\ clock' = t
    /\ UNCHANGED <<_robots_cache, _fetching_domains, _cache_loaded, _cache_dirty,
                   _cache_write_count, cache_file, ra_pc, ra_now, ra_ret>>
    /\ UNCHANGED notRobots

\* lines 53-71: `now`, the load of the cache file, the cache entry, the marker
IsAllowedEnter(c) ==
    /\ ra_pc[c] = "idle"
    /\ _cache_lock_free(ra_pc)
    /\ LET now == clock
           cache == IF _cache_loaded THEN _robots_cache ELSE cache_file
       IN  /\ _cache_loaded' = TRUE
           /\ _robots_cache' = cache
           /\ IF cache_hit(cache, now)
              THEN /\ ra_ret' = [ra_ret EXCEPT ![c] = Ret("cache", cache.allowed, "none")]
                   /\ UNCHANGED <<_fetching_domains, ra_pc, ra_now>>
              ELSE IF ~must_fetch(_fetching_domains, now)
              THEN /\ ra_ret' = [ra_ret EXCEPT ![c] = Ret("in_flight", TRUE, "none")]
                   /\ UNCHANGED <<_fetching_domains, ra_pc, ra_now>>
              ELSE /\ _fetching_domains' = now
                   /\ ra_now' = [ra_now EXCEPT ![c] = now]
                   /\ ra_pc' = [ra_pc EXCEPT ![c] = "fetching"]
                   /\ ra_ret' = [ra_ret EXCEPT ![c] = NoRet]
    /\ UNCHANGED <<clock, _cache_dirty, _cache_write_count, cache_file>>
    /\ UNCHANGED notRobots

\* lines 73-91: the fetch ends, the entry is written and the marker removed under
\* the lock; every CACHE_WRITE_THRESHOLD writes the expired entries are dropped and
\* open(ROBOTS_CACHE_FILE, "w") empties the file, else the call returns
IsAllowedFetched(c) ==
    /\ ra_pc[c] = "fetching"
    /\ _cache_lock_free(ra_pc)
    /\ \E outcome \in FetchOutcomes :
         LET allowed == fetch_allowed(outcome)
             saved == _save_robots_cache(Entry(allowed, ra_now[c]), cache_file, TRUE,
                                         _cache_write_count + 1, clock)
         IN  /\ _robots_cache' = saved.cache
             /\ ra_ret' = [ra_ret EXCEPT ![c] = Ret("fetch", allowed, outcome)]
             /\ IF write_due(TRUE, _cache_write_count + 1, FALSE)
                THEN /\ cache_file' = NoEntry
                     /\ _cache_dirty' = TRUE
                     /\ _cache_write_count' = _cache_write_count + 1
                     /\ ra_pc' = [ra_pc EXCEPT ![c] = "saving"]
                ELSE /\ cache_file' = saved.file
                     /\ _cache_dirty' = saved.dirty
                     /\ _cache_write_count' = saved.count
                     /\ ra_pc' = [ra_pc EXCEPT ![c] = "idle"]
    /\ _fetching_domains' = NoMarker
    /\ ra_now' = [ra_now EXCEPT ![c] = 0]
    /\ UNCHANGED <<clock, _cache_loaded>>
    /\ UNCHANGED notRobots

\* lines 46-48 and 91: json.dump has written the cache to the file, the flag and
\* the counter are reset, the lock is released and the call returns
SaveDumped(c) ==
    /\ ra_pc[c] = "saving"
    /\ cache_file' = _robots_cache
    /\ _cache_dirty' = FALSE
    /\ _cache_write_count' = 0
    /\ ra_pc' = [ra_pc EXCEPT ![c] = "idle"]
    /\ UNCHANGED <<clock, _robots_cache, _fetching_domains, _cache_loaded, ra_now, ra_ret>>
    /\ UNCHANGED notRobots

NextRobots ==
    \/ Tick
    \/ \E c \in Workers :
        \/ IsAllowedEnter(c)
        \/ IsAllowedFetched(c)
        \/ SaveDumped(c)

(***************************************************************************)
(* apply_rate_limit: the read of the timestamp, the two sleeps, the write. *)
(* No lock is taken.  A sleeping thread wakes at its instant or later.     *)
(***************************************************************************)
InitRateLimit ==
    /\ InitScraper
    /\ NoSafetyCall
    /\ InitPool
    /\ NoLabelCall
    /\ NoRobotsCall
    /\ NoRateLimitCall
    /\ NoSignal
    /\ NoQwenCall
    /\ NoFnCall
    /\ NoCloudCall

\* a second passes
RateLimitTick ==
    /\ rl_time < MaxTime
    /\ rl_time' = rl_time + 1
    /\ UNCHANGED <<_domain_last_request, rl_pc, rl_wake>>
    /\ UNCHANGED notRateLimit

\* lines 11-15 and the start of line 17: `now`, `elapsed`, and the sleep entered
ApplyRateLimitEnter(c) ==
    /\ rl_pc[c] = "idle"
    /\ LET now == rl_time
           elapsed == now - _domain_last_request
       IN  IF delay(elapsed) > 0
           THEN /\ rl_pc' = [rl_pc EXCEPT ![c] = "sleep_delay"]
                /\ rl_wake' = [rl_wake EXCEPT ![c] = now + delay(elapsed)]
           ELSE /\ rl_pc' = [rl_pc EXCEPT ![c] = "sleep_jitter"]
                /\ \E jitter \in JITTER_RANGE :
                     rl_wake' = [rl_wake EXCEPT ![c] = now + jitter]
    /\ UNCHANGED <<rl_time, _domain_last_request>>
    /\ UNCHANGED notRateLimit

\* line 15 is over, line 17: time.sleep(random.uniform(*JITTER_RANGE))
ApplyRateLimitJitter(c) ==
    /\ rl_pc[c] = "sleep_delay"
    /\ rl_time >= rl_wake[c]
    /\ rl_pc' = [rl_pc EXCEPT ![c] = "sleep_jitter"]
    /\ \E jitter \in JITTER_RANGE : rl_wake' = [rl_wake EXCEPT ![c] = rl_time + jitter]
    /\ UNCHANGED <<rl_time, _domain_last_request>>
    /\ UNCHANGED notRateLimit

\* line 19: the timestamp is written and the call returns
ApplyRateLimitReturn(c) ==
    /\ rl_pc[c] = "sleep_jitter"
    /\ rl_time >= rl_wake[c]
    /\ _domain_last_request' = rl_time
    /\ rl_pc' = [rl_pc EXCEPT ![c] = "idle"]
    /\ rl_wake' = [rl_wake EXCEPT ![c] = 0]
    /\ UNCHANGED rl_time
    /\ UNCHANGED notRateLimit

NextRateLimit ==
    \/ RateLimitTick
    \/ \E c \in Workers :
        \/ ApplyRateLimitEnter(c)
        \/ ApplyRateLimitJitter(c)
        \/ ApplyRateLimitReturn(c)

(***************************************************************************)
(* script.py: main awaits retry_failed_classifications, which runs         *)
(* label_domains_in_batches with force=True on the failed domains, while a *)
(* SIGINT or SIGTERM may arrive.                                           *)
(***************************************************************************)
InitScript ==
    /\ InitScraper
    /\ NoUtilCall
    /\ NoSafetyCall
    /\ InitPool
    /\ session = "open"
    /\ lb_pc = "loop"
    /\ domains \in UNION { [1..n -> LabelInputs] : n \in 1..MaxDomains }
    /\ force = TRUE
    /\ batch_size \in 1..MaxBatchSize
    /\ max_concurrent \in 1..MaxBatchSize
    /\ batch_i = 0
    /\ tasks = <<>>
    /\ all_results = <<>>
    /\ outcomes = <<>>
    /\ domain_labels = [d \in LabelDomains |->
           IF d = ACo THEN LabelRow(TRUE, BothFailedText, Null, Null)
           ELSE LabelRow(TRUE, NullText, Null, Null)]

\* lines 27-32: signal_handler schedules handle_shutdown, which sets stop_event
HandleShutdown ==
    /\ lb_pc # "exited"
    /\ ~stop_event
    /\ stop_event' = TRUE
    /\ UNCHANGED notScript

\* lines 51-80: the results are counted and logged, `finally: await close_session()`
MainFinally ==
    /\ lb_pc = "returned"
    /\ lb_pc' = "exited"
    /\ session' = "none"
    /\ UNCHANGED <<domains, force, batch_size, max_concurrent, batch_i, tasks,
                   all_results, outcomes, domain_labels>>
    /\ UNCHANGED notLabel

NextScript ==
    \/ HandleShutdown
    \/ StartBatch
    \/ \E j \in 1..MaxBatchSize :
        \/ LabelStart(j, {TRUE})
        \/ LabelFinish(j, {TransportError, GoodResponse}, {TRUE})
    \/ Collect
    \/ ReturnAll
    \/ MainFinally

(***************************************************************************)
(* call_qwen(prompt, retries).                                             *)
(***************************************************************************)
InitCallQwen ==
    /\ InitScraper
    /\ NoSafetyCall
    /\ InitPool
    /\ NoRobotsCall
    /\ NoRateLimitCall
    /\ NoSignal
    /\ NoFnCall
    /\ NoCloudCall
    /\ lb_pc = "idle"
    /\ domains = <<>>
    /\ force = FALSE
    /\ batch_size = 1
    /\ max_concurrent = 1
    /\ batch_i = 0
    /\ tasks = <<>>
    /\ all_results = <<>>
    /\ outcomes = <<>>
    /\ domain_labels = [d \in LabelDomains |-> NoLabelRow]
    /\ session \in {"none", "open"}
    /\ cq_pc = "loop"
    /\ cq_retries \in 0..MaxRetries
    /\ cq_attempt = 0
    /\ cq_log = <<>>
    /\ cq_ret = Null

\* lines 66-91: the session is made if there is none, the request is posted, and
\* the call returns the response text, sleeps 0.5 s and goes round, or raises
Post ==
    /\ cq_pc = "loop"
    /\ session' = "open"
    /\ \E outcome \in PostOutcomes :
         LET st == call_qwen_attempt(cq_retries, cq_attempt, outcome)
         IN  /\ cq_pc' = st.pc
             /\ cq_attempt' = st.attempt
             /\ cq_log' = Append(cq_log, outcome)
             /\ cq_ret' = IF st.pc = "returned" THEN ResponseText(outcome, cq_attempt)
                          ELSE Null
    /\ UNCHANGED <<cq_retries, lb_pc, domains, force, batch_size, max_concurrent, batch_i,
                   tasks, all_results, outcomes, domain_labels>>
    /\ UNCHANGED notCallQwen

NextCallQwen == Post

(***************************************************************************)
(* WebScraper._scrape_url on its own: one call with a navigation whose     *)
(* page sits on each side of every check of lines 265-307.                 *)
(***************************************************************************)
\* nothing else of the program runs while one function is called on its own
NothingRuns ==
    /\ InitScraper
    /\ NoSafetyCall
    /\ InitPool
    /\ NoLabelCall
    /\ NoRobotsCall
    /\ NoRateLimitCall
    /\ NoSignal
    /\ NoQwenCall

PageLens == {0, min_html_size - 1, min_html_size, 5000, max_html_size, max_html_size + 1}

PageBodies ==
    { PlainBody, CaptchaBody,
      <<"C", "L", "O", "U", "D", "F", "L", "A", "R", "E">>,
      <<"A", "c", "c", "e", "s", "s", " ", "D", "e", "n", "i", "e", "d">>,
      <<"b", "o", "t", " ", "d", "e", "t", "e", "c", "t", "i", "o", "n">>,
      <<"u", "n", "b", "l", "o", "c", "k", "e", "d">>,
      <<"b", "l", "o", "c", "k">> }

PageExtracts ==
    { ExtractedNone, ExtractRaises,
      ExtractedText(0, 0, 0, 0), ExtractedText(3, 0, 0, 2),
      ExtractedText(0, min_text_size - 1, 0, 0), ExtractedText(5, min_text_size - 1, 10, 5),
      ExtractedText(0, min_text_size, 0, 0), ExtractedText(0, min_text_size, 15, 0),
      ExtractedText(2, 400, 60, 2) }

PageNavs ==
    { Nav("ok", r, FALSE, Html(l, b, e)) :
        r \in {0, max_redirects, max_redirects + 1}, l \in PageLens, b \in PageBodies,
        e \in PageExtracts }
    \cup { Nav(o, 0, FALSE, NoHtml) : o \in {"timeout", "error"} }

InitPage ==
    /\ NothingRuns
    /\ NoCloudCall
    /\ fn_pc = "called"
    /\ fn_args \in [domain : {ACo}, protocol : {"https", "http"}, nav : PageNavs]
    /\ fn_ret = <<>>

\* lines 249-330: the call returns its ScrapeResult
ScrapeUrlReturns ==
    /\ fn_pc = "called"
    /\ fn_pc' = "returned"
    /\ fn_ret' = _scrape_url(fn_args.domain, fn_args.protocol, fn_args.nav)
    /\ UNCHANGED fn_args
    /\ UNCHANGED notFn

NextPage == ScrapeUrlReturns

(***************************************************************************)
(* is_dangerous_ip on its own, in each of the two modules that define it,  *)
(* on addresses of every class ipaddress tells apart (the flags are those  *)
(* of Python 3.11), each inside and outside the cloud-metadata set.        *)
(***************************************************************************)
IpClasses ==
    { <<"93.184.216.34", 4, {}>>, <<"100.64.0.1", 4, {}>>,
      <<"100.100.100.200", 4, {}>>, <<"10.0.0.1", 4, {"private"}>>,
      <<"127.0.0.1", 4, {"private", "loopback"}>>,
      <<"169.254.169.254", 4, {"private", "link_local"}>>,
      <<"224.0.0.1", 4, {"multicast"}>>, <<"240.0.0.1", 4, {"private", "reserved"}>>,
      <<"0.0.0.0", 4, {"private", "unspecified"}>>,
      <<"2606:2800:220:1::1", 6, {}>>, <<"::1", 6, {"private", "loopback", "reserved"}>>,
      <<"fec0::1", 6, {"site_local"}>>, <<"fe80::1", 6, {"private", "link_local"}>>,
      <<"ff02::1", 6, {"multicast"}>>, <<"::", 6, {"private", "reserved", "unspecified"}>>,
      <<"4000::1", 6, {"reserved"}>>, <<"fc00::1", 6, {"private"}>> }

\* a text ipaddress.ip_address raises ValueError on
Unparsable(name) == [IP(name, 0, {}, FALSE) EXCEPT !.parses = FALSE]

IpInputs ==
    { IP(a[1], a[2], a[3], cloud) : a \in IpClasses, cloud \in BOOLEAN }
    \cup { Unparsable("not-an-ip"), Unparsable("") }

IpModules == {"cloud_metadata.py", "ip_validator.py"}

InitIp ==
    /\ NothingRuns
    /\ NoCloudCall
    /\ fn_pc = "called"
    /\ fn_args \in [module : IpModules, ip : IpInputs]
    /\ fn_ret = <<>>

\* cloud_metadata.py lines 15-46, ip_validator.py lines 205-237
IsDangerousIpReturns ==
    /\ fn_pc = "called"
    /\ fn_pc' = "returned"
    /\ fn_ret' = IF fn_args.module = "cloud_metadata.py"
                 THEN PyBool(is_dangerous_ip(fn_args.ip))
                 ELSE updater_is_dangerous_ip(fn_args.ip)
    /\ UNCHANGED fn_args
    /\ UNCHANGED notFn

NextIp == IsDangerousIpReturns

(***************************************************************************)
(* classifier/text_extractor.py: extract_text on a parsed page.  A page is *)
(* what the function reads of it: the text of the title, the content of    *)
(* the description meta tag, the text of the first h1 (None when the       *)
(* element is missing) and the texts of the p elements in document order.  *)
(***************************************************************************)
min_paragraph_len == 30

Soup(title, meta, h1, ps) == [title |-> title, meta |-> meta, h1 |-> h1, ps |-> ps]

\* Tag.get_text(strip=True) of an element holding one string
get_text(text) == Strip(text)

\* soup.find_all("p")[:max_paragraphs]
FirstParagraphs(ps, n) == SubSeq(ps, 1, IF n < Len(ps) THEN n ELSE Len(ps))

\* line 19: `len(text) > 30 and "cookie" not in text.lower()`
keeps_paragraph(text) ==
    Len(text) > min_paragraph_len /\ ~Contains(Lower(text), <<"c", "o", "o", "k", "i", "e">>)

\* lines 4-20: the list `parts` when the function's last statement has run
parts(soup, max_paragraphs) ==
    (IF soup.title # None THEN <<get_text(soup.title)>> ELSE <<>>)
    \o (IF soup.meta # None /\ soup.meta # <<>> THEN <<soup.meta>> ELSE <<>>)
    \o (IF soup.h1 # None THEN <<get_text(soup.h1)>> ELSE <<>>)
    \o SelectSeq([i \in DOMAIN FirstParagraphs(soup.ps, max_paragraphs) |->
                     get_text(FirstParagraphs(soup.ps, max_paragraphs)[i])],
                 keeps_paragraph)

\* lines 3-20: the body ends after the paragraph loop with no return statement,
\* so the call evaluates to None whatever `parts` holds
extract_text(soup, max_paragraphs) == None

Pad(n) == [i \in 1..n |-> "x"]

ElementTexts == { None, <<>>, <<" ", "A", "c", "m", "e", " ">> }

ParagraphTexts ==
    { Pad(min_paragraph_len + 1), Pad(min_paragraph_len),
      <<" ">> \o Pad(min_paragraph_len) \o <<" ">>,
      <<"C", "o", "o", "k", "i", "e", "s">> \o Pad(min_paragraph_len),
      <<"c", "o", "o", "k", "i", "e", "s">> \o Pad(min_paragraph_len) }

SeqsUpTo(S, n) == UNION { [1..k -> S] : k \in 0..n }

Soups ==
    { Soup(t, m, h, ps) : t \in ElementTexts, m \in ElementTexts, h \in ElementTexts,
                          ps \in SeqsUpTo(ParagraphTexts, MaxParagraphs) }

\* the values the callers pass: 1 and 5 (scraper.py lines 24, 28), the default 3
ParagraphLimits == {1, 3, 5}

InitExtract ==
    /\ NothingRuns
    /\ NoCloudCall
    /\ fn_pc = "called"
    /\ fn_args \in [soup : Soups, max_paragraphs : ParagraphLimits]
    /\ fn_ret = <<>>

\* text_extractor.py lines 3-20
ExtractTextReturns ==
    /\ fn_pc = "called"
    /\ fn_pc' = "returned"
    /\ fn_ret' = extract_text(fn_args.soup, fn_args.max_paragraphs)
    /\ UNCHANGED fn_args
    /\ UNCHANGED notFn

NextExtract == ExtractTextReturns

(***************************************************************************)
(* get_cloud_metadata_ips: the loop over the sources, the write of each    *)
(* per-source cache (inside _fetch_from_source) and of the combined cache, *)
(* each write in two steps: open(path, 'w') empties the file, json.dump    *)
(* fills it.  No lock is taken anywhere in the class.                      *)
(***************************************************************************)
\* the per-source cache files found at start: none, one left unreadable, one
\* written by _fetch_from_source, one holding addresses (put there by hand or by an
\* earlier version of the extraction), within the TTL or past it
StartFiles ==
    { Missing, Partial, JsonFile({}, TRUE), JsonFile({OtherMetadataIp}, TRUE),
      JsonFile({OtherMetadataIp}, FALSE) }

\* what a remote document mentions
Texts == { {}, {OtherMetadataIp, "169.254.169.254"} }

InitCloud ==
    /\ NothingRuns
    /\ NoFnCall
    /\ source_caches \in [Sources -> StartFiles]
    /\ combined_cache = Missing
    /\ gm = [c \in Updaters |-> NoGm]

\* the caller's locals after its loop is done with source g.i
Advance(g, all_ips) ==
    IF g.i = NumSources THEN Gm("combine", g.force_refresh, g.i, all_ips, {})
    ELSE Gm("source", g.force_refresh, g.i + 1, all_ips, {})

\* another caller is between open(path, 'w') and the end of json.dump on the file
OtherWriter(c, pc_, i) ==
    \E o \in Updaters \ {c} : gm[o].pc = pc_ /\ (pc_ = "dump_source" => gm[o].i = i)

\* lines 164-174: all_ips = set(fallback_cloud_metadata_ips)
GetCloudMetadataIps(c) ==
    /\ gm[c].pc \in {"idle", "returned", "raised"}
    /\ \E force_refresh \in BOOLEAN :
         gm' = [gm EXCEPT ![c] = Gm("source", force_refresh, 1,
                                    update({}, fallback_cloud_metadata_ips), {})]
    /\ UNCHANGED <<source_caches, combined_cache>>
    /\ UNCHANGED notCloud

\* lines 176-181: the source's cache is valid and holds addresses
UseCache(c) ==
    /\ gm[c].pc = "source"
    /\ ~gm[c].force_refresh
    /\ NonEmpty(_load_from_cache(source_caches[gm[c].i]))
    /\ gm' = [gm EXCEPT ![c] =
                 Advance(@, update(@.all_ips, _load_from_cache(source_caches[@.i]).ips))]
    /\ UNCHANGED <<source_caches, combined_cache>>
    /\ UNCHANGED notCloud

\* lines 183 and 112-129: the request, the extraction, and open(cache_path, 'w');
\* a failure of any of them makes _fetch_from_source return None
FetchFromSource(c) ==
    /\ gm[c].pc = "source"
    /\ gm[c].force_refresh \/ ~NonEmpty(_load_from_cache(source_caches[gm[c].i]))
    /\ \E fetched \in BOOLEAN, text \in Texts, writable \in BOOLEAN :
         IF fetched /\ writable
         THEN /\ source_caches' = [source_caches EXCEPT ![gm[c].i] = Partial]
              /\ gm' = [gm EXCEPT ![c] = Gm("dump_source", @.force_refresh, @.i, @.all_ips,
                                             _extract_ips_from_text(text))]
         ELSE /\ gm' = [gm EXCEPT ![c] = Advance(@, @.all_ips)]
              /\ UNCHANGED source_caches
    /\ UNCHANGED combined_cache
    /\ UNCHANGED notCloud

\* lines 130-133 and 184-185: json.dump fills the per-source cache, the addresses
\* are returned and added when there are any
DumpSource(c) ==
    /\ gm[c].pc = "dump_source"
    /\ \E mixed \in (IF OtherWriter(c, "dump_source", gm[c].i) THEN BOOLEAN ELSE {FALSE}) :
         source_caches' = [source_caches EXCEPT ![gm[c].i] =
                              IF mixed THEN Garbled ELSE JsonFile(gm[c].ips, TRUE)]
    /\ gm' = [gm EXCEPT ![c] =
                 Advance(@, IF @.ips # {} THEN update(@.all_ips, @.ips) ELSE @.all_ips)]
    /\ UNCHANGED combined_cache
    /\ UNCHANGED notCloud

\* lines 187-193: open(self.cache_file, 'w'), which raises when the file cannot be
\* written
OpenCombined(c) ==
    /\ gm[c].pc = "combine"
    /\ \E writable \in BOOLEAN :
         IF writable
         THEN /\ combined_cache' = Partial
              /\ gm' = [gm EXCEPT ![c].pc = "dump_combined"]
         ELSE /\ gm' = [gm EXCEPT ![c].pc = "raised"]
              /\ UNCHANGED combined_cache
    /\ UNCHANGED source_caches
    /\ UNCHANGED notCloud

\* lines 194-197: json.dump fills the combined cache and all_ips is returned
DumpCombined(c) ==
    /\ gm[c].pc = "dump_combined"
    /\ \E mixed \in (IF OtherWriter(c, "dump_combined", 0) THEN BOOLEAN ELSE {FALSE}) :
         combined_cache' = IF mixed THEN Garbled ELSE JsonFile(gm[c].all_ips, TRUE)
    /\ gm' = [gm EXCEPT ![c].pc = "returned"]
    /\ UNCHANGED source_caches
    /\ UNCHANGED notCloud

\* cache_ttl seconds have passed since a per-source cache was written
Expire(s) ==
    /\ source_caches[s].kind # "missing"
    /\ source_caches[s].fresh
    /\ \A c \in Updaters : ~(gm[c].pc = "dump_source" /\ gm[c].i = s)
    /\ source_caches' = [source_caches EXCEPT ![s].fresh = FALSE]
    /\ UNCHANGED <<combined_cache, gm>>
    /\ UNCHANGED notCloud

NextCloud ==
    \/ \E c \in Updaters :
        \/ GetCloudMetadataIps(c)
        \/ UseCache(c)
        \/ FetchFromSource(c)
        \/ DumpSource(c)
        \/ OpenCombined(c)
        \/ DumpCombined(c)
    \/ \E s \in Sources : Expire(s)

Init == InitScraper /\ NoUtilCall /\ NoSafetyCall /\ InitPool /\ NoLabelCall

Spec == Init /\ [][Next]_vars

\* the thread that runs scrape_domain keeps running
SpecLive == Init /\ [][Next]_vars /\ WF_vars(Next)

SpecConcurrent == Init /\ [][NextConcurrent]_vars

SpecSafety == InitSafety /\ [][NextSafety]_vars

SpecPool == InitPoolSized /\ [][NextPool]_vars

SpecPoolClose == InitPoolSized /\ [][NextPoolClose]_vars

SpecBatch == InitBatch /\ [][NextBatch]_vars

SpecLabel == InitLabel /\ [][NextLabel]_vars

SpecRobots == InitRobots /\ [][NextRobots]_vars

SpecRateLimit == InitRateLimit /\ [][NextRateLimit]_vars

SpecScript == InitScript /\ [][NextScript]_vars

SpecIp == InitIp /\ [][NextIp]_vars

SpecCloud == InitCloud /\ [][NextCloud]_vars

SpecPage == InitPage /\ [][NextPage]_vars

SpecExtract == InitExtract /\ [][NextExtract]_vars

SpecCallQwen == InitCallQwen /\ [][NextCallQwen]_vars

(***************************************************************************)
(* The properties.                                                         *)
(***************************************************************************)
Returned(w) == pc[w] = "returned"

RedirectLimit(w) == UrlError(Protocols[protocol[w]], " exceeded redirect limit")

\* C1: a call whose check_domain_safety returned false never acquires a browser,
\* and returns the unsafe-target error after exactly one store_scrape_results call,
\* which carried that error.
C1_UnsafeTargetBlockedAndStoredOnce ==
    \A w \in Workers :
        safe[w] = "unsafe" =>
            /\ eff[w].get_page = 0
            /\ pc[w] \in {"store", "returned"}
            /\ Returned(w) =>
                 /\ result[w] = ScrapeResult(normalized[w], <<>>, UnsafeTarget, FALSE)
                 /\ eff[w].store = 1
                 /\ stored[w] = <<[domain |-> normalized[w], text |-> UnsafeTarget,
                                   error |-> UnsafeTarget]>>

C1_Witness == \E w \in Workers : Returned(w) /\ safe[w] = "unsafe"

\* C2: a navigation that passed through an unsafe redirect target never has its
\* page content read and never yields a success result.
C2_UnsafeRedirectAbortsFetch ==
    [][\A w \in Workers :
         (pc[w] = "content" /\ pc'[w] = "protocols" /\ page[w].unsafe_hop) =>
             /\ ~content_read(page[w])
             /\ result'[w].error # None]_vars

\* C3: check_domain_safety returns true exactly when no error was raised, the A and
\* AAAA answers together hold at least one address, and none of them is dangerous.
C3_SafeIffResolvedAndNoneDangerous ==
    cds_pc = "returned" =>
        LET a4 == IF cds_in.v4.status = "ok"
                  THEN {cds_in.v4.addrs[i] : i \in 1..Len(cds_in.v4.addrs)} ELSE {}
            a6 == IF cds_in.v6.status = "ok"
                  THEN {cds_in.v6.addrs[i] : i \in 1..Len(cds_in.v6.addrs)} ELSE {}
            resolved == a4 \cup a6
            raised == \/ cds_in.v4.status = "error"
                      \/ cds_in.v6.status = "error"
                      \/ cds_in.cloud_fails /\ resolved # {}
        IN  cds_ret = (/\ ~raised
                       /\ resolved # {}
                       /\ \A a \in resolved : ~is_dangerous_ip(a))

C3_Witness ==
    /\ cds_pc = "returned"
    /\ cds_in.v4.status = "gaierror"
    /\ cds_in.v6.status = "ok"
    /\ cds_ret

\* C4: of all the calls for one domain, at most one acquires a browser.
C4_AtMostOneFetchPerDomain == \A d \in Domains : Fetchers(d) <= 1

\* C5: a call that returns skipped=true made one is_domain_scraped query and nothing
\* else: no rate-limit wait, no safety or robots check, no browser, no store.
C5_SkipHasNoOtherEffect ==
    \A w \in Workers :
        (Returned(w) /\ result[w].skipped) =>
            /\ result[w] = ScrapeResult(normalized[w], <<>>, AlreadyScraped, TRUE)
            /\ eff[w] = [NoEff EXCEPT !.is_scraped = 1]
            /\ stored[w] = <<>>

C5_Witness == \E w \in Workers : Returned(w) /\ result[w].skipped

HasEdgeHyphenLabel(s) ==
    \E i \in 1..Len(s) :
        /\ s[i] = "-"
        /\ \/ i = 1
           \/ i = Len(s)
           \/ s[i - 1] = "."
           \/ s[i + 1] = "."

HasLongLabel(s) ==
    \E i \in 1..(Len(s) - 63) : \A j \in i..(i + 63) : s[j] # "."

Malformed(s) ==
    \/ s = <<>>
    \/ Len(s) > 253
    \/ HasEdgeHyphenLabel(s)
    \/ HasLongLabel(s)

ExpectedStore(r) ==
    [domain |-> r.domain, text |-> IF r.error = None THEN r.text ELSE r.error,
     error |-> r.error]

\* C7 as claimed: every returned outcome, the invalid-format one included, was
\* passed to store_scrape_results.
C7_EveryOutcomeStored ==
    \A w \in Workers :
        (Returned(w) /\ ~result[w].skipped) => stored[w] = <<ExpectedStore(result[w])>>

\* C7 as amended: every returned outcome other than the invalid-format rejection and
\* the already-scraped skip was passed to store_scrape_results, once.
C7_EveryOutcomeButInvalidStored ==
    \A w \in Workers :
        (Returned(w) /\ ~result[w].skipped /\ result[w].error # InvalidFormat) =>
            stored[w] = <<ExpectedStore(result[w])>>

C7_Witness ==
    \E w \in Workers :
        /\ Returned(w)
        /\ result[w].error = RobotsDisallowed
        /\ stored[w] # <<>>

\* C8: once a non-skipped call for d returned with its store accepted, the row's
\* scraped_text is non-null and every call for d that starts later returns skipped.
C8_AcceptedThenSkipped ==
    /\ \A d \in accepted : Row(d).scraped_text # None
    /\ \A w \in Workers : (Returned(w) /\ after[w]) => result[w].skipped

\* C9 as claimed: more than 5 redirects always end in the redirect-limit error, and
\* at most 5 never do.
C9_RedirectCapFive ==
    [][\A w \in Workers :
         (pc[w] = "content" /\ pc'[w] = "protocols") =>
             /\ page[w].redirects > 5 => result'[w].error = RedirectLimit(w)
             /\ page[w].redirects <= 5 => result'[w].error # RedirectLimit(w)]_vars

\* C9 as amended: more than 2 redirects never end in a success (the redirect-limit
\* error when page.goto returned, else its timeout or error), and at most 2 never
\* end in the redirect-limit error.
C9_RedirectCapTwo ==
    [][\A w \in Workers :
         (pc[w] = "content" /\ pc'[w] = "protocols") =>
             /\ page[w].redirects > 2 =>
                   /\ result'[w].error # None
                   /\ page[w].outcome = "ok" => result'[w].error = RedirectLimit(w)
             /\ page[w].redirects <= 2 => result'[w].error # RedirectLimit(w)]_vars

C9_Witness ==
    \E w \in Workers :
        /\ pc[w] = "protocols"
        /\ result[w].error = UrlError("https", " exceeded redirect limit")

\* C10: a pass of _scrape_with_protocols tries https, then http only after https
\* failed, each at most once; it returns the first success, and when both failed the
\* error that joins the https error and the http error in that order.
C10_HttpsThenHttp ==
    \A w \in Workers :
        /\ tried[w] \in {<<>>, <<"https">>, <<"https", "http">>}
        /\ Len(tried[w]) = 2 =>
              /\ Len(failed_attempts[w]) >= 1
              /\ failed_attempts[w][1][1] = "HTTPS"
        /\ pc[w] = "attempt_done" =>
              \/ /\ result[w].error = None
                 /\ Len(tried[w]) >= 1
                 /\ Len(failed_attempts[w]) = Len(tried[w]) - 1
              \/ /\ result[w].error # None
                 /\ tried[w] = <<"https", "http">>
                 /\ Len(failed_attempts[w]) = 2
                 /\ failed_attempts[w][1][1] = "HTTPS"
                 /\ failed_attempts[w][2][1] = "HTTP"
                 /\ result[w].error =
                       BothFailed \o failed_attempts[w][1] \o <<"; ">>
                           \o failed_attempts[w][2]

C10_Witness ==
    \E w \in Workers :
        /\ pc[w] = "attempt_done"
        /\ Len(failed_attempts[w]) = 2
        /\ result[w].error # None

\* C11: an attempt that returned a ScrapeResult carrying an error is stored and
\* returned at once; the retry loop goes round again only after an exception.
C11_ErrorResultNotRetried ==
    [][\A w \in Workers :
          (pc[w] = "attempt_done" /\ result[w].error # None /\ pc'[w] # pc[w])
              => (pc'[w] = "store" /\ attempt'[w] = attempt[w])]_vars

Holders == { c \in Workers : Holding(c) }

\* C12: whenever no caller holds a browser, every browser of the initialized pool is
\* back on the idle queue, however the get_page blocks ended.
C12_BrowserAlwaysReturned ==
    (_initialized /\ Holders = {}) => Len(_browser_queue) = self_pool_size

\* C13: at most pool_size callers hold a browser, no browser is held twice or held
\* while idle, and the pool has exactly pool_size live browsers once initialized and
\* none before.
C13_BoundedExclusiveLazyPool ==
    /\ Cardinality(Holders) <= self_pool_size
    /\ \A c1 \in Holders, c2 \in Holders : c1 # c2 => gp_browser[c1] # gp_browser[c2]
    /\ \A c \in Holders : gp_browser[c] \notin Range(_browser_queue)
    /\ Cardinality(Range(_browser_queue)) = Len(_browser_queue)
    /\ launched - Cardinality(closed) = IF _initialized THEN self_pool_size ELSE 0
    /\ Len(_browsers) = launched - Cardinality(closed)

C13_Witness ==
    /\ Cardinality(Holders) = self_pool_size
    /\ \E c \in Workers : gp_pc[c] = "acquire"
    /\ _browser_queue = <<>>
    /\ launched = self_pool_size

\* C14: a checkout never fails because all browsers are busy: no caller leaves
\* get_page from its wait on the idle queue.
C14_CheckoutNeverFailsBusy ==
    [][\A c \in Workers : ~(gp_pc[c] = "acquire" /\ gp_pc'[c] = "out")]_vars

\* C15: close() never raises and leaves the pool without browsers, without engine
\* handle and uninitialized, also when called by a failed initialize(); a close()
\* right after a close() changes nothing.
C15_CloseIdempotentNeverRaises ==
    [][(closes_in_row' > 0 /\ poolVars' # poolVars) =>
           /\ ~_initialized'
           /\ ~_playwright'
           /\ _browsers' = <<>>
           /\ _browser_queue' = <<>>
           /\ Range(_browsers) \subseteq closed'
           /\ ~close_raised'
           /\ (closes_in_row > 0 /\ gp_pc' = gp_pc) =>
                  UNCHANGED <<_initialized, _playwright, _browsers, _browser_queue,
                              closed>>]_vars

C15_Witness ==
    /\ closes_in_row = 2
    /\ closed # {}
    /\ \E c \in Workers : Holding(c)
    /\ ~_initialized /\ _browsers = <<>> /\ _browser_queue = <<>>

\* C16: label_domains_in_batches returns one result per input domain, in input
\* order: for a label_domain call that raised, an error result for that same domain
\* with classifier_error set; for every other call, the result it returned.
C16_OneResultPerDomainInOrder ==
    /\ lb_pc \in {"loop", "returned"} => Len(all_results) = Min(batch_i, Len(domains))
    /\ lb_pc = "returned" =>
         /\ Len(outcomes) = Len(domains)
         /\ \A k \in 1..Len(domains) :
              IF outcomes[k].raised
              THEN /\ all_results[k].domain = domains[k]
                   /\ all_results[k].category = "error"
                   /\ all_results[k].classifier_error = outcomes[k].exc
                   /\ all_results[k].classifier_error # Null
              ELSE /\ all_results[k] = outcomes[k].result
                   /\ all_results[k].domain = Normalized[domains[k]]

C16_Witness ==
    /\ lb_pc = "returned"
    /\ Len(domains) = MaxDomains
    /\ batch_size < MaxDomains
    /\ \E k \in 1..Len(domains) : outcomes[k].raised /\ outcomes[k].exc = "Exception"
    /\ \E k \in 1..Len(domains) : outcomes[k].raised /\ outcomes[k].exc = "TypeError"
    /\ \E k \in 1..Len(domains) : ~outcomes[k].raised /\ outcomes[k].result.category = "tech"

\* the tasks whose label_domain call is over
Done == { j \in DOMAIN tasks : tasks[j].pc = "done" }

\* a response that is not valid JSON, not an object, or an object without one of
\* the four fields
MalformedResponse(r) ==
    /\ r.kind # "transport_error"
    /\ r.kind # "object" \/ ~(RequiredKeys \subseteq r.keys)

\* C17: a malformed backend response, on either path, gives category "unknown" and
\* confidence 0, and no exception escapes label_domain.
C17_MalformedResponseIsUnknown ==
    \A j \in Done :
        (tasks[j].path \in {"content", "fallback"} /\ MalformedResponse(tasks[j].response))
            => /\ ~tasks[j].out.raised
               /\ tasks[j].out.result.category = "unknown"
               /\ tasks[j].out.result.confidence = 0

\* C18: the fallback path is taken exactly when the stored scrape recorded an error,
\* the text is below a length threshold or it matches at least 2 noisy signals.
C18_FallbackIffErroredShortOrNoisy ==
    \A j \in DOMAIN tasks :
        tasks[j].path \in {"content", "fallback"} =>
            LET row == tasks[j].row0
                text == row.scraped_text
                errored == row.scrape_error # Null \/ text.both_failed
                short == text.chars < min_chars \/ text.tokens < min_tokens
                noisy == Cardinality(text.signals) >= min_signals
            IN  (tasks[j].path = "fallback") = (errored \/ short \/ noisy)

\* C19: with no record or a null scraped_text, label_domain returns the
\* domain-not-found result, calls no backend and raises nothing.
C19_NoTextIsDomainNotFound ==
    \A j \in Done :
        ((force \/ tasks[j].row0.category = Null)
         /\ (~tasks[j].row0.exists \/ tasks[j].row0.scraped_text.null))
            => /\ ~tasks[j].out.raised
               /\ tasks[j].out.result.classifier_error = DomainNotFound
               /\ tasks[j].out.calls = 0

\* C20: with force = false, label_domain on a classified domain calls no backend and
\* writes nothing, and the stored category stays.
C20_ClassifiedNotOverwritten ==
    \A j \in Done :
        (~force /\ tasks[j].row0.category # Null)
            => /\ tasks[j].out.calls = 0
               /\ tasks[j].out.writes = 0
               /\ domain_labels[Normalized[tasks[j].raw]].category = tasks[j].row0.category

\* C21: every result label_domains_in_batches returns, other than an "Already
\* labeled" skip, had store_classification_results called for its domain, and a
\* failed one's classifier_error is in the stored row.
C21_EveryOutcomePersisted ==
    lb_pc = "returned" =>
        \A k \in 1..Len(all_results) :
            all_results[k].classifier_error # AlreadyLabeled
            => /\ outcomes[k].writes >= 1
               /\ all_results[k].classifier_error # Null
                  => domain_labels[Normalized[domains[k]]].classifier_error
                         = all_results[k].classifier_error

\* C22: at most max_concurrent label_domain calls are in flight, and a call of a
\* batch is in flight or finished only when every call of the batches before it has
\* finished and been collected.
C22_BoundedConcurrencyBatchBarrier ==
    /\ Cardinality(Awaiting) <= max_concurrent
    /\ (lb_pc = "gather" /\ \E j \in DOMAIN tasks : tasks[j].pc # "pending")
       => /\ Len(outcomes) = batch_i
          /\ \A j \in DOMAIN tasks : tasks[j].raw = domains[batch_i + j]
    /\ lb_pc # "gather" => Awaiting = {}

\* max_concurrent calls are in flight, a task of the batch waits for the semaphore
\* and a further batch waits for this one
C22_Witness ==
    /\ Cardinality(Awaiting) = max_concurrent
    /\ \E j \in DOMAIN tasks : tasks[j].pc = "pending"
    /\ Len(domains) > batch_i + batch_size

\* the outcomes of a robots.txt fetch that are failures to fetch or to parse it
FetchFailures == {"exception", "http_401_403", "http_4xx", "http_5xx"}

\* C23: a call whose fetch of robots.txt fails returns true and leaves allowed=true
\* in the cache (no exception escapes: the call returns).
C23_FetchFailureIsAllowed ==
    [][\A c \in Workers :
         (ra_pc[c] = "fetching" /\ ra_pc'[c] # "fetching"
            /\ ra_ret'[c].outcome \in FetchFailures)
         => /\ ra_ret'[c].value = TRUE
            /\ _robots_cache'.present => _robots_cache'.allowed = TRUE]_vars

\* the callers whose fetch is in flight
Fetching == { c \in Workers : ra_pc[c] = "fetching" }

\* C24: a fetch starts only when no fetch of the domain is in flight or the marker
\* is at least FETCH_STUCK_TIMEOUT old, and once no fetch is in flight the domain
\* is not marked.
C24_OneFetchInFlightUnlessStuck ==
    [][/\ \A c \in Workers :
            (ra_pc[c] = "idle" /\ ra_pc'[c] = "fetching")
            => \/ Fetching = {}
               \/ /\ _fetching_domains # NoMarker
                  /\ clock - _fetching_domains >= FETCH_STUCK_TIMEOUT
       /\ (\A c \in Workers : ra_pc'[c] = "idle") => _fetching_domains' = NoMarker]_vars

\* the cache as a call finds it (the file's entry when nothing is loaded yet)
Cached == IF _cache_loaded THEN _robots_cache ELSE cache_file

\* C25: a call is answered from the cache, with the entry's allowed value and no
\* fetch, exactly when the entry's age is at most CACHE_TTL_SECONDS; with an older
\* entry or none the call fetches, or a fetch is in flight, and the fetch's result
\* replaces the entry.
C25_CacheAnswersIffFresh ==
    [][\A c \in Workers :
         /\ (ra_pc[c] = "idle" /\ <<ra_pc[c], ra_ret[c]>>' # <<ra_pc[c], ra_ret[c]>>)
            => IF Cached.present /\ clock - Cached.fetched_at <= CACHE_TTL_SECONDS
               THEN /\ ra_pc'[c] = "idle"
                    /\ ra_ret'[c] = Ret("cache", Cached.allowed, "none")
                    /\ _fetching_domains' = _fetching_domains
               ELSE /\ ra_ret'[c].how # "cache"
                    /\ \/ ra_pc'[c] = "fetching"
                       \/ ra_ret'[c].how = "in_flight" /\ Fetching # {}
         /\ (ra_pc[c] = "fetching" /\ ra_pc'[c] # "fetching")
            => \/ _robots_cache' = Entry(ra_ret'[c].value, ra_now[c])
               \/ ~_robots_cache'.present]_vars

\* a call was answered from the entry a fetch wrote, and a later call that found the
\* entry older than CACHE_TTL_SECONDS is fetching
C25_Witness ==
    \E c, c2 \in Workers :
        /\ ra_ret[c].how = "cache"
        /\ ra_pc[c] = "idle"
        /\ ra_pc[c2] = "fetching"
        /\ _robots_cache.present
        /\ ra_now[c2] - _robots_cache.fetched_at > CACHE_TTL_SECONDS
        /\ _cache_write_count > 0

\* C26: a call to which is_scraping_allowed answered false (the domain being valid,
\* not yet scraped and safe) never acquires a browser, and returns the
\* robots-disallowed error after exactly one store_scrape_results call, which
\* carried that error.
C26_RobotsDisallowedBlockedAndStoredOnce ==
    \A w \in Workers :
        (eff[w].robots = 1 /\ result[w].error = RobotsDisallowed) =>
            /\ eff[w].get_page = 0
            /\ pc[w] \in {"store", "returned"}
            /\ Returned(w) =>
                 /\ result[w] = ScrapeResult(normalized[w], <<>>, RobotsDisallowed, FALSE)
                 /\ eff[w].store = 1
                 /\ stored[w] = <<[domain |-> normalized[w], text |-> RobotsDisallowed,
                                   error |-> RobotsDisallowed]>>

C26_Witness ==
    \E w \in Workers :
        /\ Returned(w)
        /\ safe[w] = "safe"
        /\ eff[w].is_scraped = 1
        /\ eff[w].robots = 1
        /\ result[w].error = RobotsDisallowed

\* C27: an apply_rate_limit call of the domain returns at least MIN_DOMAIN_DELAY
\* after the return before it, whichever thread made either call.
C27_ReturnsMinDelayApart ==
    [][\A c \in Workers :
         (rl_pc[c] = "sleep_jitter" /\ rl_pc'[c] = "idle" /\ _domain_last_request # 0)
         => rl_time - _domain_last_request >= MIN_DOMAIN_DELAY]_vars

\* C28: once the shutdown signal was received no batch and no label_domain call is
\* started, the calls in flight run to their end, and main leaves with the HTTP
\* session closed.
C28_ShutdownStopsNewWork ==
    [][/\ stop_event =>
            /\ ~(lb_pc = "loop" /\ lb_pc' = "gather")
            /\ \A j \in DOMAIN tasks :
                 /\ (tasks[j].pc = "pending" /\ j \in DOMAIN tasks')
                    => tasks'[j].pc = "pending"
                 /\ tasks[j].pc = "awaiting"
                    => (j \in DOMAIN tasks' /\ tasks'[j].pc \in {"awaiting", "done"})
       /\ lb_pc' = "exited" => session' = "none"]_vars

\* C29: a scrape_domain call runs at most max_retries + 1 passes of
\* _scrape_with_protocols and at most 2 * (max_retries + 1) navigations, sleeps
\* 2^k seconds between pass k and pass k + 1 and at no other moment, and, once it
\* has started scraping, comes to return with its result passed to storage.
C29_BoundedRetriesBackoffTermination ==
    /\ [](\A w \in Workers :
            /\ attempt[w] <= max_retries
            /\ eff[w].get_page <= 2 * (max_retries + 1)
            /\ eff[w].sleeps = [k \in 1..attempt[w] |-> 2 ^ (k - 1)]
            /\ (Returned(w) /\ eff[w].get_page > 0) => stored[w] # <<>>)
    /\ \A w \in {1} : (pc[w] = "get_page") ~> Returned(w)

\* the call returned after max_retries + 1 failed passes of two navigations each
C29_Witness ==
    \E w \in Workers :
        /\ Returned(w)
        /\ attempt[w] = max_retries
        /\ eff[w].get_page = 2 * (max_retries + 1)
        /\ Len(eff[w].sleeps) = max_retries
        /\ stored[w] # <<>>

\* the posts of the call that got HTTP status 200
Status200 == { k \in 1..Len(cq_log) : cq_log[k] \in {"ok", "ok_unknown", "bad_body"} }

\* the posts of the call that got status 200 with a JSON body holding "response"
Answered == { k \in 1..Len(cq_log) : cq_log[k] \in {"ok", "ok_unknown"} }

\* C30 as claimed: call_qwen posts at most retries + 1 times, returns the text of the
\* first post that gets status 200 and posts no more, goes on after an exception or
\* another status, raises only when post retries + 1 failed, and never posts again
\* after a well-formed "unknown".
C30_ReturnsFirstStatus200 ==
    /\ Len(cq_log) <= cq_retries + 1
    /\ Status200 \subseteq {Len(cq_log)}
    /\ cq_pc = "returned" <=> Status200 # {}
    /\ cq_pc = "returned" => cq_ret = ResponseText(cq_log[Len(cq_log)], Len(cq_log) - 1)
    /\ cq_pc = "raised" <=> (Len(cq_log) = cq_retries + 1 /\ Status200 = {})
    /\ cq_pc = "loop" => Len(cq_log) = cq_attempt

\* C30 as amended: the same with "the first post that gets status 200 and a JSON body
\* holding response" in place of "the first post that gets status 200"; a status 200
\* whose body cannot be read is a failed post like any other.
C30_ReturnsFirstAnswer ==
    /\ Len(cq_log) <= cq_retries + 1
    /\ Answered \subseteq {Len(cq_log)}
    /\ cq_pc = "returned" <=> Answered # {}
    /\ cq_pc = "returned" => cq_ret = ResponseText(cq_log[Len(cq_log)], Len(cq_log) - 1)
    /\ cq_pc = "raised" <=> (Len(cq_log) = cq_retries + 1 /\ Answered = {})
    /\ cq_pc = "loop" => Len(cq_log) = cq_attempt

\* the call returned a well-formed "unknown" on its last allowed post, after posts
\* that failed in each of the three ways
C30_Witness ==
    /\ cq_pc = "returned"
    /\ Len(cq_log) = cq_retries + 1
    /\ cq_log[Len(cq_log)] = "ok_unknown"
    /\ {"status", "exception", "bad_body"} \subseteq { cq_log[k] : k \in 1..Len(cq_log) }

(***************************************************************************)
(* C31 (as stated): a ScrapeResult of _scrape_url with error = None comes  *)
(* from a page of 300 to 1,000,000 characters that holds no blocking       *)
(* keyword in any case and whose extracted text has at least 100           *)
(* characters that are not whitespace; a result with an error has empty    *)
(* text.                                                                   *)
(***************************************************************************)
\* some stretch of the body is a blocking keyword once its case is ignored
HoldsKeyword(body) ==
    \E k \in 1..Len(blocking_keywords) :
        \E i \in 1..Len(body) :
            /\ i + Len(blocking_keywords[k]) - 1 <= Len(body)
            /\ \A j \in 1..Len(blocking_keywords[k]) :
                   LowerChar(body[i + j - 1]) = blocking_keywords[k][j]

PageAccepted == fn_pc = "returned" /\ fn_ret.error = None

SizeAndKeywordsPass ==
    LET html == fn_args.nav.html
    IN  /\ fn_args.nav.outcome = "ok"
        /\ html.len <= 1000000
        /\ html.len >= 300
        /\ ~HoldsKeyword(html.body)
        /\ html.extracted.kind = "text"

ErrorHasEmptyText == (fn_pc = "returned" /\ fn_ret.error # None) => fn_ret.text = <<>>

C31_AcceptedPageHasNonBlankText ==
    /\ PageAccepted =>
          SizeAndKeywordsPass /\ NonBlank(fn_args.nav.html.extracted) >= 100
    /\ ErrorHasEmptyText

(***************************************************************************)
(* C31 (amended): the same, with the text measured as the code measures    *)
(* it: at least 100 characters once the whitespace before and after it is  *)
(* stripped, the whitespace inside it counted.                             *)
(***************************************************************************)
C31_AcceptedPagePassedEveryCheck ==
    /\ PageAccepted =>
          /\ SizeAndKeywordsPass
          /\ fn_args.nav.html.extracted.core >= 100
    /\ ErrorHasEmptyText

\* a page of exactly 300 characters is accepted on a text of 100 characters, gaps included
C31_Witness ==
    /\ PageAccepted
    /\ fn_args.nav.html.len = 300
    /\ fn_args.nav.html.extracted.core = 100
    /\ fn_args.nav.html.extracted.gaps > 0

(***************************************************************************)
(* C32: every ClassificationResult label_domain produces, and every        *)
(* confidence it writes to domain_labels, has a confidence in 0..10,       *)
(* whatever confidence the backend returned.                               *)
(***************************************************************************)
C32_ConfidenceInRange ==
    \A j \in Done :
        ~tasks[j].out.raised =>
            /\ tasks[j].out.result.confidence \in 0..10
            /\ tasks[j].out.result.classifier_error = Null =>
                  domain_labels[Normalized[tasks[j].raw]].confidence \in 0..10

(***************************************************************************)
(* C33: the set get_cloud_metadata_ips returns holds every address of the  *)
(* fallback list, whatever the per-source caches hold and however each     *)
(* fetch ends; with that set, is_dangerous_ip is true of every fallback    *)
(* address, and when the call raises instead, check_domain_safety rejects. *)
(***************************************************************************)
\* what ipaddress.ip_address makes of a metadata address, against the set returned
MetadataAddr(ip_str, cloud_ips) ==
    IP(ip_str, 4, IF ip_str \in LinkLocalIps THEN {"private", "link_local"} ELSE {},
       ip_str \in cloud_ips)

C33_FallbackAlwaysInSet ==
    \A c \in Updaters :
        /\ gm[c].pc = "returned" =>
              /\ fallback_cloud_metadata_ips \subseteq gm[c].all_ips
              /\ \A ip_str \in fallback_cloud_metadata_ips :
                     is_dangerous_ip(MetadataAddr(ip_str, gm[c].all_ips))
        /\ gm[c].pc = "raised" =>
              \A ip_str \in fallback_cloud_metadata_ips :
                  ~check_domain_safety(
                      [v4 |-> [status |-> "ok",
                               addrs |-> <<MetadataAddr(ip_str, {})>>],
                       v6 |-> [status |-> "gaierror", addrs |-> <<>>],
                       cloud_fails |-> TRUE])

\* a call returned after it took the addresses of one cache and fetched the other
\* source in vain
C33_Witness ==
    \E c \in Updaters :
        /\ gm[c].pc = "returned"
        /\ OtherMetadataIp \in gm[c].all_ips
        /\ \E s \in Sources : source_caches[s].kind = "missing"

(***************************************************************************)
(* C34: is_dangerous_ip is true of every unparsable text, every address in *)
(* the cloud-metadata set and every private, loopback, link-local,         *)
(* multicast, reserved, unspecified or (IPv6) site-local address, false of *)
(* every other address, and both definitions of it give that verdict.      *)
(***************************************************************************)
DangerousClasses(fam) ==
    {"private", "loopback", "link_local", "multicast", "reserved", "unspecified"}
        \cup (IF fam = 6 THEN {"site_local"} ELSE {})

C34_DangerousIffListedClass ==
    fn_pc = "returned" =>
        LET ip == fn_args.ip
            listed == \/ ~ip.parses
                      \/ ip.cloud
                      \/ \E class \in DangerousClasses(ip.fam) : class \in ip.flags
        IN  /\ fn_ret.type = "bool"
            /\ bool(fn_ret) = listed

(***************************************************************************)
(* C35: the robots cache file is written only when the cache is dirty and  *)
(* at least CACHE_WRITE_THRESHOLD entries were added since the last write  *)
(* (no caller forces a save); a write first drops every entry older than   *)
(* the TTL, ends with the dirty flag and the counter reset, and is made    *)
(* with the lock held: no second write, and no other lock block, runs      *)
(* meanwhile.                                                              *)
(***************************************************************************)
Saving == { c \in Workers : ra_pc[c] = "saving" }

C35_BatchedCleanedLockedWrites ==
    [][/\ cache_file' # cache_file =>
            \E c \in Workers :
                \/ /\ ra_pc[c] = "fetching" /\ ra_pc'[c] = "saving"
                   /\ _cache_dirty'
                   /\ _cache_write_count' >= 5
                \/ ra_pc[c] = "saving" /\ ra_pc'[c] = "idle"
       /\ \A c \in Workers :
            /\ (ra_pc[c] = "fetching" /\ ra_pc'[c] = "saving") =>
                  /\ _cache_dirty' /\ _cache_write_count' >= 5
                  /\ _robots_cache'.present =>
                        clock - _robots_cache'.fetched_at <= 86400
            /\ (ra_pc[c] = "fetching" /\ ra_pc'[c] = "idle") =>
                  /\ _cache_write_count' < 5
                  /\ cache_file' = cache_file
            /\ (ra_pc[c] = "saving" /\ ra_pc'[c] = "idle") =>
                  /\ cache_file' = _robots_cache
                  /\ ~_cache_dirty'
                  /\ _cache_write_count' = 0
            /\ c \in Saving =>
                  /\ Saving = {c}
                  /\ \A o \in Workers \ {c} : <<ra_pc[o], ra_ret[o]>>' = <<ra_pc[o], ra_ret[o]>>
                  /\ _robots_cache' = _robots_cache]_vars

\* the fifth entry since the last write is being saved, stripped of an entry that
\* expired during its fetch, while another caller's fetch waits for the lock
C35_Witness ==
    \E c, o \in Workers :
        /\ ra_pc[c] = "saving"
        /\ ra_pc[o] = "fetching"
        /\ _cache_write_count = 5
        /\ ~_robots_cache.present

(***************************************************************************)
(* C36: a cache file on disk is replaced atomically: a file that holds a   *)
(* complete document (or does not exist yet) never comes to hold anything  *)
(* but a complete document, whoever is in the middle of saving it.         *)
(***************************************************************************)
Complete(file) == file.kind \in {"missing", "json"}

C36_CacheFilesReplacedAtomically ==
    [][/\ Complete(combined_cache) => Complete(combined_cache')
       /\ \A src \in Sources :
            Complete(source_caches[src]) => Complete(source_caches'[src])]_vars

(***************************************************************************)
(* C37: while a fetch of the domain's robots.txt is in flight and its      *)
(* marker is less than FETCH_STUCK_TIMEOUT old, any other call returns     *)
(* true at once: it starts no fetch and leaves the cache, the file, the    *)
(* dirty flag, the write counter and the marker as they are.               *)
(***************************************************************************)
C37_OptimisticAllowWhileFetching ==
    [][\A c \in Workers :
         ( /\ ra_pc[c] = "idle"
           /\ <<ra_pc[c], ra_ret[c]>>' # <<ra_pc[c], ra_ret[c]>>
           /\ Fetching # {}
           /\ _fetching_domains # NoMarker
           /\ clock - _fetching_domains < 30 )
         => /\ ra_pc'[c] = "idle"
            /\ ra_ret'[c] = Ret("in_flight", TRUE, "none")
            /\ UNCHANGED <<_robots_cache, cache_file, _cache_dirty, _cache_write_count,
                           _fetching_domains>>]_vars

\* a call was let through while the fetch was in flight, and the fetch then
\* recorded that robots.txt disallows the domain
C37_Witness ==
    \E c, o \in Workers :
        /\ ra_ret[c] = Ret("in_flight", TRUE, "none")
        /\ ra_ret[o] = Ret("fetch", FALSE, "disallow")
        /\ _robots_cache = Entry(FALSE, 0)
        /\ clock < FETCH_STUCK_TIMEOUT

\* get_page hands a browser out (line 85: the Queue.get returned)
HandedOut(c) == gp_pc[c] = "acquire" /\ gp_pc'[c] = "has_browser"

\* C38: in every interleaving of get_page callers and close(), the idle queue
\* never holds a browser that close() has closed, never holds more than
\* pool_size browsers, and get_page never hands out a closed browser.
C38_IdleQueueHoldsOnlyOpenBrowsers ==
    [][/\ Range(_browser_queue') \cap closed' = {}
       /\ Len(_browser_queue') <= self_pool_size'
       /\ \A c \in Workers : HandedOut(c) => gp_browser'[c] \notin closed']_vars


\* SupabaseClient.is_domain_scraped, lines 57-64, on a row of the labeler's
\* storage when the query works: `scraped_text is not None`
has_scraped(row) == ~row.scraped_text.null

\* C39: label_domain(d), forced or not, leaves is_domain_scraped(d) false when it
\* was false before, so that a later scrape_domain(d) still fetches d.
C39_LabelingKeepsUnscrapedUnscraped ==
    [][\A d \in LabelDomains :
          ~has_scraped(domain_labels[d]) => ~has_scraped(domain_labels'[d])]_vars


RECURSIVE Concatenation(_)
Concatenation(texts) ==
    IF texts = <<>> THEN <<>> ELSE Head(texts) \o Concatenation(Tail(texts))

\* C40: extract_text(soup, max_paragraphs=N) returns the concatenation of the
\* title, the meta description, the first h1 and the kept paragraphs, in this
\* order, and a non-empty text whenever one of these parts is there.
C40_ReturnsConcatenationOfParts ==
    fn_pc = "returned" =>
        LET texts == parts(fn_args.soup, fn_args.max_paragraphs)
        IN  /\ fn_ret = Concatenation(texts)
            /\ Concatenation(texts) # <<>> => fn_ret \notin {None, <<>>}

====
